---- MODULE Spec2Model ----
(***************************************************************************)
(* Verification model of vtagger (backend/app).                            *)
(*                                                                         *)
(* Part 1 - the sync coordinator: the SyncService singleton                *)
(* (services/sync_service.py), the request handlers of api/status.py that  *)
(* drive it, the background tasks they spawn, and the part of              *)
(* TaggingEngine.fetch_and_map (services/tagging_engine.py) that the       *)
(* coordinator observes.                                                   *)
(*                                                                         *)
(* Scheduling: the request handlers are `async def` without an await       *)
(* between their guard and their writes, so each handler is one atomic     *)
(* action.  The background tasks are plain functions, which Starlette      *)
(* runs in its thread pool: a task is a sequence of steps that interleave  *)
(* freely with the handlers and with each other.  A step ends at an        *)
(* access to state another thread writes; work on locals and calls to the  *)
(* upstream API are folded into the step that follows them.                *)
(***************************************************************************)
EXTENDS Integers, Sequences, FiniteSets, TLC

\* ------------------------------------------------------------------ bounds
NumTasks == 2       \* background tasks that can be alive at the same time
MaxAccounts == 1    \* account keys resolved for one run
MaxPayers == 1      \* payer groups found in one JSONL file
MaxUploads == 1     \* upload ids the upstream hands out

MAX_UPLOAD_HISTORY == 30

Tasks == 1..NumTasks

\* start_range_sync and its closure are start_week_sync and its closure with
\* run_range_sync for run_week_sync, and both services enter _run_sync alike:
\* a range request is a week request here.
SyncKinds == {"week", "month"}

VARIABLES
    engine,          \* sync_service._engine: 0 is None, t the engine created by task t
    cancelled,       \* sync_service._cancelled
    starting,        \* sync_service._starting
    upload_phase,    \* sync_service._upload_phase
    last_result,     \* sync_service._last_result
    upload_history,  \* sync_service._upload_history (upload ids)
    tracker_state,   \* progress_tracker._state
    next_upload_id,  \* the next uploadId the upstream returns
    response,        \* answer to the most recent request
    task             \* the background tasks: position, locals and observations

syncVars == <<engine, cancelled, starting, upload_phase, last_result,
              upload_history, tracker_state, next_upload_id, response, task>>

\* The coordinator fields a rejected start request must leave alone.
coordVars == <<engine, cancelled, starting, last_result>>

\* The state of the mapping engine and of one evaluation of it (Part 2 and 3).
VARIABLES
    statements,          \* Dimension.statements of the dimension being defined
    tag_context,         \* dict of tag key -> value, as the list of its items
    dimension_context,   \* dict of dimension name -> value, as the list of its items
    indexes,             \* Dimension.indexes
    result,              \* what Dimension.match returned
    rphase,              \* "define", "compiled", "matched"
    db_dimensions,       \* the rows of table dimensions
    sorted_dimensions,   \* MappingEngine._sorted_dimensions
    chain_pos            \* position of the `for dim in self._sorted_dimensions` loop

resolverVars == <<statements, indexes, result, rphase>>
contextVars == <<tag_context, dimension_context>>
chainVars == <<db_dimensions, sorted_dimensions, chain_pos>>
mappingVars == <<resolverVars, contextVars, chainVars>>

\* The state of the pipeline around the engine: one asset of the fetch loop
\* (Part 4).
VARIABLES
    asset,                   \* the row of the upstream being processed
    vtag_filter_dimensions,  \* the optional restriction of the output dimensions
    tag_column_map,          \* customTagValue_N -> tag name, as the list of the names
    mapped,                  \* the dimensions map_resource returned
    asset_outcome,           \* "none", "raised", "written", "unmatched"
    jsonl                    \* the records written to the JSONL file

assetVars == <<asset, vtag_filter_dimensions, tag_column_map, mapped, asset_outcome, jsonl>>

\* The upload side of a run: grouping the JSONL file by payer (Part 5).
VARIABLES
    jsonl_file,   \* the lines of the JSONL file handed to _group_by_payer
    groups,       \* what _group_by_payer returned: payer -> rows, as the list of its items
    csv,          \* the data lines _write_upload_csv wrote for one payer
    gphase        \* "file", "grouped", "written"

groupVars == <<jsonl_file, groups, csv, gphase>>

\* One run against the upstream, request by request (Part 6).
VARIABLES
    run_kind,       \* "sync" (_run_sync) or "upload" (upload_file)
    run_pc,         \* position of the run
    jwt_token,      \* the client holds a token it takes for valid
    account_keys,   \* number of accounts of the fetch loop
    acct_outcome,   \* account -> how its iteration of the fetch loop ended
    run_matched,    \* stats.matched_assets
    payer_groups,   \* number of payers _group_by_payer returned
    payer_idx,      \* position of the upload loop
    payer_outcome,  \* payer -> how its iteration of the upload loop ended
    paths,          \* which of csv_path, gz_path the iteration has assigned
    files,          \* the temporary files that exist, as <<payer, "csv" | "gz">>
    call,           \* the last data call of the client
    run_status      \* status of the stored result: "running", "completed", "error"

runVars == <<run_kind, run_pc, jwt_token, account_keys, acct_outcome, run_matched,
             payer_groups, payer_idx, payer_outcome, paths, files, call, run_status>>

\* The import-status monitor (Part 7).
VARIABLES
    import_status_cache,  \* SyncService._import_status_cache: upload id -> phase of the cached record
    upstream_phase,       \* the phase the upstream holds for each upload
    observed,             \* upload id -> phase of the last record a poll built for it
    poll                  \* the polls in progress, one per executor thread

pollVars == <<import_status_cache, upstream_phase, observed, poll>>
\* The progress broadcaster (Part 8).
VARIABLES
    tracker,      \* the fields of ProgressTracker other than _state and _subscribers
    subscribers,  \* ProgressTracker._subscribers: the queues subscribed
    queues,       \* queue -> the snapshots put to it and not yet taken
    now,          \* what time.time() returns
    last_call     \* the last tracker operation and the subscriptions before it

trackerVars == <<tracker, subscribers, queues, now, last_call>>

\* A dimension reload beside a resource mapping (Part 9).
VARIABLES
    loader,   \* the load_dimensions in progress on the event loop
    mapper    \* the map_resource in progress in the thread of the run

reloadVars == <<loader, mapper>>

\* The upload history over many runs (Part 10).
VARIABLES
    appended   \* every upload id _append_upload_history has appended, in order

historyVars == <<appended>>

\* The fetch loops over the page stream of the client (Part 11).
VARIABLES
    fetch   \* one fetch_and_map: its loops, its counters and the generator it drives

streamVars == <<fetch>>

\* The validation of a dimension (Part 12).
VARIABLES
    content,   \* the dimension JSON handed to validate_dimension_json
    errors     \* the list it returned; Pending before the call

validateVars == <<content, errors>>

\* One account's page stream, row by row (Part 13).
VARIABLES
    pager   \* one call of fetch_assets_stream: its locals, what it sent,
            \* received and yielded

pagerVars == <<pager>>

\* The tags of one asset (Part 14).
VARIABLES
    tagged   \* an asset, the tags map_resource resolves with and the tags
             \* _extract_tags writes for it

mergeVars == <<tagged>>

\* The presigned uploads of one upload loop (Part 15).
VARIABLES
    presigned   \* the loop of _upload_vtags over its payers: the requests of
                \* upload_virtual_tags, their answers and the uploads list

presignedVars == <<presigned>>

\* The pipeline CSV at the end of fetch_and_map (Part 16).
VARIABLES
    csvgen   \* the JSONL file, the cancel flag and the header of the CSV

csvgenVars == <<csvgen>>

\* The token of the upstream client (Part 17).
VARIABLES
    auth   \* the client's token and expiry, the clock, the credentials and
           \* the last call of _ensure_authenticated

authVars == <<auth>>

moreVars == <<pagerVars, mergeVars, presignedVars, csvgenVars, authVars>>

extraVars == <<trackerVars, reloadVars, historyVars, streamVars, validateVars, moreVars>>
pipelineVars == <<assetVars, groupVars, runVars, pollVars, extraVars>>

\* ----------------------------------------------------------- data shapes
\* A result dictionary, reduced to its status and its counters.
NoResult ==
    [status |-> "none", total_assets |-> 0, matched_assets |-> 0, unmatched_assets |-> 0]

Result(status, total, matched, unmatched) ==
    [status |-> status, total_assets |-> total, matched_assets |-> matched,
     unmatched_assets |-> unmatched]

IdleTask ==
    [kind |-> "none", pc |-> "idle",
     cancel_requested |-> FALSE,   \* TaggingEngine._cancel_requested of this run's engine
     accts |-> 0, acct |-> 0,      \* len(account_keys) and the account loop's index
     total |-> 0, matched |-> 0, unmatched |-> 0,   \* MappingStats
     payers |-> 0, payer |-> 0,    \* len(payer_groups) and the upload loop's index
     uploads |-> <<>>,             \* uploads of _upload_vtags
     \* observations (no code reads them)
     cancel_since_accept |-> FALSE,  \* cancel() was called after this request was accepted
     cancel_in_phase |-> FALSE,      \* cancel() was called during this run's fetch or upload phase
     cancel_observed |-> FALSE,      \* a fetch-loop check of this run saw the cancel flag
     csv_generated |-> FALSE,        \* _process_and_generate_csv ran in this run
     upload_attempted |-> FALSE]     \* upload_virtual_tags was called in this run

Active(t) == task[t].pc # "idle"
FreeSlots == {t \in Tasks : ~Active(t)}
\* A new background task takes the lowest free slot.
NewSlot == CHOOSE t \in FreeSlots : \A u \in FreeSlots : t <= u

FetchPhase == {"fm_acct", "fm_stream", "fm_asset", "fm_csv"}
UploadPhase == {"up_group", "up_loop", "up_put"}

Min(a, b) == IF a < b THEN a ELSE b

\* A history that is never trimmed.
keep_all(seq, n) == seq

\* list[-n:] of Python, for n > 0
LastN(seq, n) == SubSeq(seq, Len(seq) - Min(Len(seq), n) + 1, Len(seq))

RECURSIVE AppendNew(_, _)
\* The uploads whose id was not in the history when _append_upload_history began.
AppendNew(history, uploads) ==
    IF uploads = <<>> THEN <<>>
    ELSE (IF \E i \in 1..Len(history) : history[i] = Head(uploads)
          THEN <<>> ELSE <<Head(uploads)>>) \o AppendNew(history, Tail(uploads))

\* _append_upload_history: append the new ones, keep the last MAX_UPLOAD_HISTORY
append_upload_history(history, uploads) ==
    LastN(history \o AppendNew(history, uploads), MAX_UPLOAD_HISTORY)

\* _save_last_result: the history after persisting a result with these uploads
save_last_result(uploads) ==
    IF uploads # <<>> THEN append_upload_history(upload_history, uploads)
    ELSE upload_history

\* progress_tracker.is_running
is_running ==
    tracker_state \notin {"idle", "complete", "error", "cancelled"}

\* ------------------------------------------------------ request handlers

mark_starting_keeps_flag ==
    /\ starting' = TRUE
    /\ cancelled' = cancelled

\* SyncService.mark_starting
mark_starting ==
    /\ starting' = TRUE
    /\ cancelled' = FALSE

\* The guard of start_week_sync, start_month_sync and start_range_sync.
sync_already_running == engine # 0 \/ starting

Spawn(kind, pc) == [task EXCEPT ![NewSlot] = [IdleTask EXCEPT !.kind = kind, !.pc = pc]]

\* POST /sync/week, /sync/month, /sync/range: a conflict answer changes nothing
StartSync(kind) ==
    IF sync_already_running
    THEN /\ response' = "conflict"
         /\ UNCHANGED <<mappingVars, pipelineVars>>
         /\ UNCHANGED <<engine, cancelled, starting, upload_phase, last_result,
                        upload_history, tracker_state, next_upload_id, task>>
    ELSE /\ FreeSlots # {}
         /\ UNCHANGED <<mappingVars, pipelineVars>>
         /\ mark_starting
         /\ task' = Spawn(kind, "t_check1")
         /\ response' = "started"
         /\ UNCHANGED <<engine, upload_phase, last_result, upload_history,
                        tracker_state, next_upload_id>>

\* POST /simulate: guarded by the progress tracker, not by the coordinator.  (A
\* request refused for missing credentials or dimensions changes nothing and is
\* left out, here and in StartUpload.)
StartSimulation ==
    IF is_running
    THEN /\ response' = "conflict"
         /\ UNCHANGED <<mappingVars, pipelineVars>>
         /\ UNCHANGED <<engine, cancelled, starting, upload_phase, last_result,
                        upload_history, tracker_state, next_upload_id, task>>
    ELSE /\ FreeSlots # {}
         /\ UNCHANGED <<mappingVars, pipelineVars>>
         /\ task' = Spawn("sim", "sim_run")
         /\ response' = "started"
         /\ UNCHANGED <<engine, cancelled, starting, upload_phase, last_result,
                        upload_history, tracker_state, next_upload_id>>

\* POST /upload: no guard at all beyond authentication and the file's existence.
StartUpload ==
    /\ FreeSlots # {}
    /\ task' = Spawn("upload", "uf_begin")
    /\ response' = "started"
    /\ UNCHANGED <<engine, cancelled, starting, upload_phase, last_result,
                   upload_history, tracker_state, next_upload_id>>
    /\ UNCHANGED <<mappingVars, pipelineVars>>

\* What cancel() does to the task records: TaggingEngine.cancel on the referenced
\* engine, and the observations of the cancel.
CancelTasks ==
    [t \in Tasks |->
        [task[t] EXCEPT
            !.cancel_requested = (@ \/ engine = t),
            !.cancel_since_accept = (@ \/ (Active(t) /\ task[t].kind \in SyncKinds)),
            !.cancel_in_phase = (@ \/ task[t].pc \in FetchPhase \cup UploadPhase)]]

\* SyncService.cancel
cancel ==
    /\ cancelled' = TRUE
    /\ task' = CancelTasks
    /\ IF starting
       THEN /\ starting' = FALSE
            /\ last_result' = Result("cancelled", 0, 0, 0)
            /\ upload_history' = save_last_result(<<>>)
       ELSE UNCHANGED <<starting, last_result, upload_history>>

\* POST /sync/cancel.  month_sync_service.cancel() acts on that service's own
\* private SyncService and simulation_service.cancel() on an engine that is never
\* set (see SimRun): neither touches the coordinator.
CancelSync ==
    /\ cancel
    /\ response' = "ok"
    /\ UNCHANGED <<engine, upload_phase, tracker_state, next_upload_id>>
    /\ UNCHANGED <<mappingVars, pipelineVars>>

\* POST /reset
ResetAll ==
    /\ engine' = 0
    /\ starting' = FALSE
    /\ cancelled' = FALSE
    /\ upload_phase' = ""
    /\ tracker_state' = "idle"
    /\ response' = "ok"
    /\ UNCHANGED <<last_result, upload_history, next_upload_id, task>>
    /\ UNCHANGED <<mappingVars, pipelineVars>>

\* ------------------------------------------------------ background tasks
\* run_sync, the closure each start handler hands to BackgroundTasks.

Finish(t) == [task EXCEPT ![t] = IdleTask]

\* `if sync_service._cancelled: sync_service._starting = False; return`
CancelledBeforeRun(t, next) ==
    IF cancelled
    THEN /\ starting' = FALSE
         /\ task' = Finish(t)
    ELSE /\ task' = [task EXCEPT ![t].pc = next]
         /\ UNCHANGED starting

\* An `except Exception` block that logs the error and clears nothing.
except_logs_only(t) ==
    /\ UNCHANGED <<starting, last_result, upload_history, engine>>
    /\ task' = Finish(t)

\* the `except Exception` block of run_sync
TaskExcept(t) ==
    /\ starting' = FALSE
    /\ last_result' = Result("error", 0, 0, 0)
    /\ upload_history' = save_last_result(<<>>)
    /\ engine' = 0
    /\ task' = Finish(t)

TaskCheck1(t) ==
    /\ task[t].pc = "t_check1"
    /\ CancelledBeforeRun(t, "t_auth")
    /\ UNCHANGED <<engine, cancelled, upload_phase, last_result, upload_history,
                   tracker_state, next_upload_id, response>>
    /\ UNCHANGED <<mappingVars, pipelineVars>>

\* umbrella_client._ensure_authenticated() returns or raises; after it the second
\* `if sync_service._cancelled` check.
TaskAuth(t) ==
    /\ task[t].pc = "t_auth"
    /\ \E ok \in BOOLEAN :
        IF ok
        THEN /\ CancelledBeforeRun(t, "t_call")
             /\ UNCHANGED <<engine, last_result, upload_history>>
        ELSE TaskExcept(t)
    /\ UNCHANGED <<cancelled, upload_phase, tracker_state, next_upload_id, response>>
    /\ UNCHANGED <<mappingVars, pipelineVars>>

\* The call the closure makes raises TypeError for a month sync:
\* month_sync_service.run_month_sync takes neither account_keys nor filter_mode.
RunCallRaises(kind) == kind = "month"

\* The head of _run_sync: `if self._cancelled:` ... return (nothing is stored),
\* else clear the flags.
RunSyncCheck(t) ==
    /\ IF cancelled
       THEN /\ task' = Finish(t)
            /\ UNCHANGED upload_phase
       ELSE /\ upload_phase' = ""
            /\ task' = [task EXCEPT ![t].pc = "rs_engine"]
    /\ starting' = FALSE
    /\ cancelled' = FALSE

\* The closure loads the dimensions if needed (raising if there are none) and
\* calls the service, which begins with RunSyncCheck.
TaskCall(t) ==
    /\ task[t].pc = "t_call"
    /\ \E dimensions_loaded \in BOOLEAN :
        IF dimensions_loaded /\ ~RunCallRaises(task[t].kind)
        THEN /\ RunSyncCheck(t)
             /\ UNCHANGED <<engine, last_result, upload_history>>
        ELSE /\ TaskExcept(t)
             /\ UNCHANGED <<cancelled, upload_phase>>
    /\ UNCHANGED <<tracker_state, next_upload_id, response>>
    /\ UNCHANGED <<mappingVars, pipelineVars>>

\* run_sim: simulation_service.run_simulation takes neither max_records nor
\* filter_mode, so the call raises TypeError, which run_sim logs.
SimRun(t) ==
    /\ task[t].pc = "sim_run"
    /\ task' = Finish(t)
    /\ UNCHANGED <<engine, cancelled, starting, upload_phase, last_result,
                   upload_history, tracker_state, next_upload_id, response>>
    /\ UNCHANGED <<mappingVars, pipelineVars>>

\* --------------------------------------------------- SyncService._run_sync

\* engine = TaggingEngine(); self._engine = engine
RunSyncEngine(t) ==
    /\ task[t].pc = "rs_engine"
    /\ engine' = t
    /\ task' = [task EXCEPT ![t].pc = "rs_accts", ![t].cancel_requested = FALSE]
    /\ UNCHANGED <<cancelled, starting, upload_phase, last_result, upload_history,
                   tracker_state, next_upload_id, response>>
    /\ UNCHANGED <<mappingVars, pipelineVars>>

\* An exception that leaves _run_sync with nothing stored and nothing cleared.
finally_skipped(t, status) ==
    /\ UNCHANGED <<last_result, upload_history, engine, upload_phase>>
    /\ task' = Finish(t)

\* `return result` with this status and the `finally` block: nothing blocks
\* between the two.
RunSyncFinally(t, status) ==
    /\ last_result' = Result(status, task[t].total, task[t].matched, task[t].unmatched)
    /\ upload_history' = save_last_result(task[t].uploads)
    /\ engine' = 0
    /\ upload_phase' = ""
    /\ task' = Finish(t)

\* TaggingEngine.reset and the fresh MappingStats at the head of fetch_and_map
reset(t, n) ==
    [task EXCEPT ![t].pc = "fm_acct", ![t].cancel_requested = FALSE,
                 ![t].accts = n, ![t].acct = 1,
                 ![t].total = 0, ![t].matched = 0, ![t].unmatched = 0]

\* Resolve the account keys (n = 0 stands for get_accounts raising or finding
\* none: the `except` and the `finally`), then enter fetch_and_map, which
\* begins with self.reset().
RunSyncAccounts(t) ==
    /\ task[t].pc = "rs_accts"
    /\ \E n \in 0..MaxAccounts :
        IF n = 0
        THEN RunSyncFinally(t, "error")
        ELSE /\ task' = reset(t, n)
             /\ UNCHANGED <<last_result, upload_history, engine, upload_phase>>
    /\ UNCHANGED <<cancelled, starting, tracker_state, next_upload_id, response>>
    /\ UNCHANGED <<mappingVars, pipelineVars>>

\* ------------------------------------------- TaggingEngine.fetch_and_map
\* mapping_engine.map_resource(asset, tag_column_map=tag_column_map): map_resource
\* takes the resource alone, so the call raises TypeError for every asset; the
\* per-account `except Exception` catches it and skips the rest of the account.
MapResourceRaises == TRUE

GenerateCsvAlways(t) == TRUE

\* `if not self._cancel_requested and os.path.exists(output_file):` the file was
\* opened for writing above, so it exists.
GenerateCsvGuard(t) == ~task[t].cancel_requested

\* Head of `for acct_idx, acct_key in enumerate(account_keys)` (max_records is 0
\* in a sync): break on cancel, leave after the last account, else start the
\* account's stream.
FetchAccount(t) ==
    /\ task[t].pc = "fm_acct"
    /\ task' = IF task[t].cancel_requested \/ task[t].acct > task[t].accts
               THEN [task EXCEPT ![t].pc = "fm_csv"]
               ELSE [task EXCEPT ![t].pc = "fm_stream"]
    /\ UNCHANGED <<engine, cancelled, starting, upload_phase, last_result,
                   upload_history, tracker_state, next_upload_id, response>>
    /\ UNCHANGED <<mappingVars, pipelineVars>>

\* umbrella_client.fetch_assets_stream advances to its next yield: it raises
\* (the account is skipped), ends, or yields a non-empty batch, and then the page
\* loop's body breaks on cancel before the asset loop.
FetchStream(t) ==
    /\ task[t].pc = "fm_stream"
    /\ \E outcome \in {"error", "end", "batch"} :
        task' = IF outcome # "batch"
                THEN [task EXCEPT ![t].pc = "fm_acct", ![t].acct = @ + 1]
                ELSE IF task[t].cancel_requested
                THEN [task EXCEPT ![t].pc = "fm_acct", ![t].acct = @ + 1,
                                  ![t].cancel_observed = TRUE]
                ELSE [task EXCEPT ![t].pc = "fm_asset"]
    /\ UNCHANGED <<engine, cancelled, starting, upload_phase, last_result,
                   upload_history, tracker_state, next_upload_id, response>>
    /\ UNCHANGED <<mappingVars, pipelineVars>>

\* One iteration of `for asset in page_assets`: break on cancel (the stream is
\* then advanced again), else count the asset and map it.
FetchAsset(t) ==
    /\ task[t].pc = "fm_asset"
    /\ IF task[t].cancel_requested
       THEN task' = [task EXCEPT ![t].pc = "fm_stream", ![t].cancel_observed = TRUE]
       ELSE IF MapResourceRaises
       THEN task' = [task EXCEPT ![t].pc = "fm_acct", ![t].acct = @ + 1,
                                 ![t].total = @ + 1]
       ELSE \E any_match \in BOOLEAN, more \in BOOLEAN :
            task' = [task EXCEPT ![t].pc = IF more THEN "fm_asset" ELSE "fm_stream",
                                 ![t].total = @ + 1,
                                 ![t].matched = IF any_match THEN @ + 1 ELSE @,
                                 ![t].unmatched = IF any_match THEN @ ELSE @ + 1]
    /\ UNCHANGED <<engine, cancelled, starting, upload_phase, last_result,
                   upload_history, tracker_state, next_upload_id, response>>
    /\ UNCHANGED <<mappingVars, pipelineVars>>

\* After the loops (the JSONL file is closed): the CSV, then return. What
\* _process_and_generate_csv raises, fetch_and_map logs and raises again, to
\* the `except` and the `finally` of _run_sync.
FetchCsv(t) ==
    /\ task[t].pc = "fm_csv"
    /\ \E raises \in BOOLEAN :
        IF raises /\ GenerateCsvGuard(t)
        THEN RunSyncFinally(t, "error")
        ELSE /\ task' = [task EXCEPT ![t].pc = "rs_after",
                                     ![t].csv_generated = (@ \/ GenerateCsvGuard(t))]
             /\ UNCHANGED <<engine, upload_phase, last_result, upload_history>>
    /\ UNCHANGED <<cancelled, starting, tracker_state, next_upload_id, response>>
    /\ UNCHANGED <<mappingVars, pipelineVars>>

\* _run_sync after fetch_and_map returned (the result's counters are the stats'
\* counters): cancelled / nothing matched / upload phase.
RunSyncAfterFetch(t) ==
    /\ task[t].pc = "rs_after"
    /\ IF task[t].cancel_requested
       THEN RunSyncFinally(t, "cancelled")
       ELSE IF task[t].matched = 0
       THEN RunSyncFinally(t, "completed")
       ELSE /\ task' = [task EXCEPT ![t].pc = "up_group"]
            /\ upload_phase' = "uploading vtags"
            /\ UNCHANGED <<last_result, upload_history, engine>>
    /\ UNCHANGED <<cancelled, starting, tracker_state, next_upload_id, response>>
    /\ UNCHANGED <<mappingVars, pipelineVars>>

\* ------------------------------------------ upload_file and _upload_vtags

\* upload_file up to its `try`: clear the cancel flag, install a dummy engine
UploadFileBegin(t) ==
    /\ task[t].pc = "uf_begin"
    /\ cancelled' = FALSE
    /\ upload_phase' = "uploading vtags"
    /\ engine' = t
    /\ task' = [task EXCEPT ![t].pc = "up_group", ![t].cancel_requested = FALSE]
    /\ UNCHANGED <<starting, last_result, upload_history, tracker_state, next_upload_id, response>>
    /\ UNCHANGED <<mappingVars, pipelineVars>>

\* The end of upload_file: the result is stored, then the `finally` block.
UploadFileEnd(t, status) ==
    /\ last_result' = Result(status, 0, 0, 0)
    /\ upload_history' = save_last_result(IF status = "completed" THEN task[t].uploads
                                          ELSE <<>>)
    /\ engine' = 0
    /\ upload_phase' = ""
    /\ task' = Finish(t)

\* _upload_vtags leaves to its caller, with its uploads or with an exception
UploadLeaves(t, status) ==
    IF task[t].kind = "upload" THEN UploadFileEnd(t, status) ELSE RunSyncFinally(t, status)

\* _group_by_payer, then get_accounts() for the account lookup (it may raise)
UploadGroup(t) ==
    /\ task[t].pc = "up_group"
    /\ \E n \in 0..MaxPayers, accounts_ok \in BOOLEAN :
        IF n = 0
        THEN UploadLeaves(t, "completed")
        ELSE IF accounts_ok
        THEN /\ task' = [task EXCEPT ![t].pc = "up_loop", ![t].payers = n, ![t].payer = 1]
             /\ UNCHANGED <<last_result, upload_history, engine, upload_phase>>
        ELSE UploadLeaves(t, "error")
    /\ UNCHANGED <<cancelled, starting, tracker_state, next_upload_id, response>>
    /\ UNCHANGED <<mappingVars, pipelineVars>>

\* Head of `for payer_idx, (payer_id, records) in ...`: break on self._cancelled
\* or leave after the last payer (and return the uploads), skip a payer without
\* an account key, else go on to the payer's upload.
UploadLoop(t) ==
    /\ task[t].pc = "up_loop"
    /\ IF cancelled \/ task[t].payer > task[t].payers
       THEN UploadLeaves(t, "completed")
       ELSE /\ \E has_account_key \in BOOLEAN :
                task' = IF has_account_key
                        THEN [task EXCEPT ![t].pc = "up_put"]
                        ELSE [task EXCEPT ![t].payer = @ + 1]
            /\ UNCHANGED <<last_result, upload_history, engine, upload_phase>>
    /\ UNCHANGED <<cancelled, starting, tracker_state, next_upload_id, response>>
    /\ UNCHANGED <<mappingVars, pipelineVars>>

\* The try block of one payer: write and compress the CSV (may fail), then
\* upload_virtual_tags (may fail); an exception is logged and the loop goes on.
UploadPut(t) ==
    /\ task[t].pc = "up_put"
    /\ \E outcome \in {"io_error", "upload_error", "uploaded"} :
        /\ outcome = "uploaded" => next_upload_id <= MaxUploads
        /\ task' = [task EXCEPT
                ![t].pc = "up_loop", ![t].payer = @ + 1,
                ![t].upload_attempted = (@ \/ outcome # "io_error"),
                ![t].uploads = IF outcome = "uploaded" THEN Append(@, next_upload_id) ELSE @]
        /\ next_upload_id' = IF outcome = "uploaded" THEN next_upload_id + 1
                             ELSE next_upload_id
    /\ UNCHANGED <<engine, cancelled, starting, upload_phase, last_result,
                   upload_history, tracker_state, response>>
    /\ UNCHANGED <<mappingVars, pipelineVars>>

\* ----------------------------------------------------- the coordinator
Request ==
    \/ \E kind \in SyncKinds : StartSync(kind)
    \/ StartSimulation
    \/ StartUpload
    \/ CancelSync
    \/ ResetAll

TaskStep(t) ==
    \/ TaskCheck1(t) \/ TaskAuth(t) \/ TaskCall(t) \/ SimRun(t)
    \/ RunSyncEngine(t) \/ RunSyncAccounts(t)
    \/ FetchAccount(t) \/ FetchStream(t) \/ FetchAsset(t) \/ FetchCsv(t)
    \/ RunSyncAfterFetch(t)
    \/ UploadFileBegin(t) \/ UploadGroup(t) \/ UploadLoop(t) \/ UploadPut(t)

NextSync == Request \/ \E t \in Tasks : TaskStep(t)

\* =========================================================================
\* Part 2 - the resolver: core/dsl_parser.py and Dimension.match
\* (services/mapping_engine.py).  Strings are sequences of characters, so that
\* lower-casing, quoting and substring search are computed, not assumed.
\* =========================================================================

MaxStmts == 2       \* statements of one dimension

TagKeys == {"k1", "k2"}
DimKeys == {"D1"}
\* The literal of an atom as it is written between the quotes.
Literals == {<<"A">>}
\* Values a context can hold: equal to the literal up to case, containing it, neither.
ContextValues == {<<"A">>, <<"a", "b">>, <<"b">>}
\* Value expressions as written: 'X', 'Y' and '' (an import does not validate).
ValueExprs == {<<"'", "X", "'">>, <<"'", "Y", "'">>, <<"'", "'">>}
DefaultValue == <<"U">>

Atoms ==
    [type : {"TAG"}, key : TagKeys, op : {"==", "CONTAINS"}, value : Literals]
        \cup [type : {"DIM"}, key : DimKeys, op : {"==", "CONTAINS"}, value : Literals]

\* A statement: its matchExpression (atoms joined by ' || ') and its valueExpression.
Statements == [matchExpression : {<<a>> : a \in Atoms}, valueExpression : ValueExprs]

\* str.lower()
LowerChar(c) == IF c = "A" THEN "a" ELSE IF c = "B" THEN "b" ELSE c
Lower(str) == [i \in 1..Len(str) |-> LowerChar(str[i])]

\* Python's `sub in str`
Contains(sub, str) ==
    \E i \in 0..(Len(str) - Len(sub)) : SubSeq(str, i + 1, i + Len(sub)) = sub

Least(S) == CHOOSE i \in S : \A j \in S : i <= j

Quotes(str) == {i \in 1..Len(str) : str[i] = "'"}

\* str.strip("'\"") for the strings of this model
RECURSIVE StripQuotes(_)
StripQuotes(str) ==
    IF str # <<>> /\ Head(str) = "'" THEN StripQuotes(Tail(str))
    ELSE IF str # <<>> /\ str[Len(str)] = "'" THEN StripQuotes(SubSeq(str, 1, Len(str) - 1))
    ELSE str

\* parse_value_expression: the text between the first pair of quotes
parse_value_expression(value_expr) ==
    IF Cardinality(Quotes(value_expr)) >= 2
    THEN LET i == Least(Quotes(value_expr))
             j == Least(Quotes(value_expr) \ {i})
         IN  SubSeq(value_expr, i + 1, j - 1)
    ELSE StripQuotes(value_expr)

\* A literal that is written without its closing quote.
Unclosed == <<"'", "A">>

\* _TAG_PATTERN or _DIM_PATTERN finds the atom: TAG[...] or DIMENSION[...],
\* `==` or CONTAINS, and a literal between two quotes.
pattern_matches(atom) ==
    /\ atom.type \in {"TAG", "DIM"}
    /\ atom.op \in {"==", "CONTAINS"}
    /\ atom.value # Unclosed

\* What _parse_single_expr returns for an atom no pattern finds.
NoCondition == [type |-> "None", key |-> "", op |-> "", value |-> <<>>]

\* _parse_single_expr: the literal is lower-cased
parse_single_expr(atom) ==
    IF pattern_matches(atom) THEN [atom EXCEPT !.value = Lower(@)] ELSE NoCondition

RECURSIVE Truthy(_)
\* `[p for p in parts if p]`
Truthy(parts) ==
    IF parts = <<>> THEN <<>>
    ELSE (IF Head(parts) = NoCondition THEN <<>> ELSE <<Head(parts)>>) \o Truthy(Tail(parts))

\* parse_expression
parse_expression(match_expr) ==
    Truthy([i \in 1..Len(match_expr) |-> parse_single_expr(match_expr[i])])

EmptyIndexes == [tag_exact |-> <<>>, dim_exact |-> <<>>, tag_contains |-> <<>>,
                 dim_contains |-> <<>>]

\* `(ckey, cvalue) in d` for a dict kept as the list of its entries
InDict(d, ckey, cvalue) == \E i \in 1..Len(d) : d[i].key = ckey /\ d[i].value = cvalue

Entry(cond, res) == [key |-> cond.key, value |-> cond.value, result |-> res]

\* The body of `for cond in conditions` in build_indexes
AddCondition(idx, cond, res) ==
    IF cond.type = "TAG"
    THEN IF cond.op = "=="
         THEN IF ~InDict(idx.tag_exact, cond.key, cond.value)
              THEN [idx EXCEPT !.tag_exact = Append(@, Entry(cond, res))]
              ELSE idx
         ELSE IF ~InDict(idx.tag_exact, cond.key, cond.value)
              THEN [idx EXCEPT !.tag_contains = Append(@, Entry(cond, res))]
              ELSE idx
    ELSE IF cond.op = "=="
         THEN IF ~InDict(idx.dim_exact, cond.key, cond.value)
              THEN [idx EXCEPT !.dim_exact = Append(@, Entry(cond, res))]
              ELSE idx
         ELSE [idx EXCEPT !.dim_contains = Append(@, Entry(cond, res))]

RECURSIVE AddConditions(_, _, _)
AddConditions(idx, conditions, res) ==
    IF conditions = <<>> THEN idx
    ELSE AddConditions(AddCondition(idx, Head(conditions), res), Tail(conditions), res)

RECURSIVE AddStatements(_, _)
AddStatements(idx, stmts) ==
    IF stmts = <<>> THEN idx
    ELSE AddStatements(
             AddConditions(idx, parse_expression(Head(stmts).matchExpression),
                           parse_value_expression(Head(stmts).valueExpression)),
             Tail(stmts))

\* build_indexes
build_indexes(stmts) == AddStatements(EmptyIndexes, stmts)

\* ------------------------------------------------------- Dimension.match

\* The items of a context for which an exact index holds a truthy result:
\* `if value:` ... `result = idx[...].get((key, val_lower))` ... `if result:`
ExactHit(d, ctx, i, e) ==
    /\ ctx[i][2] # <<>>
    /\ d[e].key = ctx[i][1]
    /\ d[e].value = Lower(ctx[i][2])
    /\ d[e].result # <<>>

ExactHits(d, ctx) == {i \in 1..Len(ctx) : \E e \in 1..Len(d) : ExactHit(d, ctx, i, e)}

ExactResult(d, ctx) ==
    LET i == Least(ExactHits(d, ctx))
    IN  d[CHOOSE e \in 1..Len(d) : ExactHit(d, ctx, i, e)].result

\* `if ckey == key and cvalue in val_lower: return result`
ContainsHit(l, ctx, i, e) ==
    /\ ctx[i][2] # <<>>
    /\ l[e].key = ctx[i][1]
    /\ Contains(l[e].value, Lower(ctx[i][2]))

ContainsHits(l, ctx) == {i \in 1..Len(ctx) : \E e \in 1..Len(l) : ContainsHit(l, ctx, i, e)}

ContainsResult(l, ctx) ==
    LET i == Least(ContainsHits(l, ctx))
    IN  l[Least({e \in 1..Len(l) : ContainsHit(l, ctx, i, e)})].result

match_returns_tag_value(idx, default_value, tag_ctx, dim_ctx) ==
    IF tag_ctx # <<>> THEN tag_ctx[1][2] ELSE default_value

\* Dimension.match
match(idx, default_value, tag_ctx, dim_ctx) ==
    IF ExactHits(idx.tag_exact, tag_ctx) # {} THEN ExactResult(idx.tag_exact, tag_ctx)
    ELSE IF ExactHits(idx.dim_exact, dim_ctx) # {} THEN ExactResult(idx.dim_exact, dim_ctx)
    ELSE IF ContainsHits(idx.tag_contains, tag_ctx) # {}
    THEN ContainsResult(idx.tag_contains, tag_ctx)
    ELSE IF ContainsHits(idx.dim_contains, dim_ctx) # {}
    THEN ContainsResult(idx.dim_contains, dim_ctx)
    ELSE default_value

\* ------------------------------------------- one dimension, one evaluation

\* A dict over these keys with values from this set, in every insertion order.
Contexts(keys, values) ==
    {<<>>} \cup {<<<<k, v>>>> : k \in keys, v \in values}
        \cup {c \in {<<<<k1, v1>>, <<k2, v2>>>> :
                          k1 \in keys, k2 \in keys, v1 \in values, v2 \in values} :
                 c[1][1] # c[2][1]}

\* The statements arrive one by one (an import or an API call supplies the list).
AddStatement(stmt) ==
    /\ rphase = "define"
    /\ Len(statements) < MaxStmts
    /\ statements' = Append(statements, stmt)
    /\ UNCHANGED <<indexes, result, rphase, contextVars, chainVars, syncVars, pipelineVars>>

\* Dimension.__init__
Compile ==
    /\ rphase = "define"
    /\ indexes' = build_indexes(statements)
    /\ rphase' = "compiled"
    /\ UNCHANGED <<statements, result, contextVars, chainVars, syncVars, pipelineVars>>

\* dim.match(tag_context, dimension_context)
Match ==
    /\ rphase = "compiled"
    /\ result' = match(indexes, DefaultValue, tag_context, dimension_context)
    /\ rphase' = "matched"
    /\ UNCHANGED <<statements, indexes, contextVars, chainVars, syncVars, pipelineVars>>

\* =========================================================================
\* Part 3 - the chain: MappingEngine.load_dimensions and the loop of
\* map_resource / resolve_tags over the loaded dimensions.
\* =========================================================================

MaxDims == 2        \* rows of table dimensions
MaxIndex == 1       \* index_number ranges over 0..MaxIndex

AllNames == <<"D1", "D2", "D3", "D4">>
DimNames == {AllNames[i] : i \in 1..MaxDims}

TagAtom == [type |-> "TAG", key |-> "k1", op |-> "==", value |-> <<"A">>]
DimAtom(name) == [type |-> "DIM", key |-> name, op |-> "==", value |-> <<"A">>]

\* What a row's content holds: nothing, a tag rule whose value is A, or a rule
\* on another dimension's value.
ChainStatements ==
    {<<>>, <<[matchExpression |-> <<TagAtom>>, valueExpression |-> <<"'", "A", "'">>]>>}
        \cup {<<[matchExpression |-> <<DimAtom(n)>>, valueExpression |-> <<"'", "X", "'">>]>> :
                 n \in DimNames}

\* Table dimensions: vtag_name is UNIQUE, index_number is a plain INTEGER column.
Rows == [vtag_name : DimNames, index_number : 0..MaxIndex, statements : ChainStatements]

\* Dimension(vtag_name, index, kind, default_value, statements)
Dimension(row) ==
    [vtag_name |-> row.vtag_name, index |-> row.index_number,
     indexes |-> build_indexes(row.statements)]

unordered_query(rows) == TRUE

\* ORDER BY index_number
OrderedByIndex(rows) ==
    \A i \in 1..Len(rows), j \in 1..Len(rows) :
        i < j => rows[i].index_number <= rows[j].index_number

\* The answers the query can give: every row once, ordered by index_number; SQL
\* leaves the order of rows with equal index_number to the engine.
QueryRows(db) ==
    {rows \in [1..Cardinality(db) -> db] :
        /\ \A i \in 1..Len(rows), j \in 1..Len(rows) : i # j => rows[i] # rows[j]
        /\ OrderedByIndex(rows)}

\* load_dimensions: the lists it can leave in _sorted_dimensions
load_dimensions(db) ==
    {[i \in 1..Len(rows) |-> Dimension(rows[i])] : rows \in QueryRows(db)}

\* `dimensions import`: INSERT, or UPDATE with --replace, else skip; then reload
upsert(db, row, replace) ==
    IF \E old \in db : old.vtag_name = row.vtag_name
    THEN IF replace
         THEN {old \in db : old.vtag_name # row.vtag_name} \cup {row}
         ELSE db
    ELSE db \cup {row}

ImportDimension(row, replace) ==
    /\ chain_pos = 0
    /\ db_dimensions' = upsert(db_dimensions, row, replace)
    /\ sorted_dimensions' \in load_dimensions(db_dimensions')
    /\ UNCHANGED <<chain_pos, contextVars, resolverVars, syncVars, pipelineVars>>

\* `dimensions resolve`: load_dimensions, `if not mapping_engine.dimensions:
\* return`, then resolve_tags up to its loop.
Resolve(tags) ==
    /\ chain_pos = 0
    /\ sorted_dimensions' \in load_dimensions(db_dimensions)
    /\ IF db_dimensions = {}
       THEN UNCHANGED <<chain_pos, contextVars>>
       ELSE /\ tag_context' = tags
            /\ dimension_context' = <<>>
            /\ chain_pos' = 1
    /\ UNCHANGED <<db_dimensions, resolverVars, syncVars, pipelineVars>>

\* dict[key] = value
DictSet(d, key, value) ==
    IF \E i \in 1..Len(d) : d[i][1] = key
    THEN [i \in 1..Len(d) |-> IF d[i][1] = key THEN <<key, value>> ELSE d[i]]
    ELSE Append(d, <<key, value>>)

\* One iteration of `for dim in self._sorted_dimensions`
ChainStep ==
    /\ chain_pos \in 1..Len(sorted_dimensions)
    /\ LET dim == sorted_dimensions[chain_pos]
       IN  dimension_context' =
               DictSet(dimension_context, dim.vtag_name,
                       match(dim.indexes, DefaultValue, tag_context, dimension_context))
    /\ chain_pos' = chain_pos + 1
    /\ UNCHANGED <<tag_context, db_dimensions, sorted_dimensions, resolverVars, syncVars, pipelineVars>>

\* The loop is over: return
ChainReturn ==
    /\ chain_pos = Len(sorted_dimensions) + 1
    /\ chain_pos' = 0
    /\ UNCHANGED <<contextVars, db_dimensions, sorted_dimensions, resolverVars, syncVars, pipelineVars>>

\* =========================================================================
\* Part 4 - one asset of the fetch loop: the column index map, map_resource,
\* the match test and the JSONL record (TaggingEngine.fetch_and_map).
\* =========================================================================

FirstTagColumn == 4
TagColumns == <<FirstTagColumn, FirstTagColumn + 1>>

\* f"customTagValue_{n}"
ColName(n) ==
    IF n = 4 THEN "customTagValue_4"
    ELSE IF n = 5 THEN "customTagValue_5" ELSE "customTagValue_6"

NoTag == <<"n", "o", " ", "t", "a", "g">>
TagValues == {<<>>, <<"A">>, NoTag}

\* Account ids: absent, a short numeric one, a non-numeric one, twelve digits.
AccountIds == {<<>>, <<"7">>, <<"a">>, [i \in 1..12 |-> "1"]}

Assets ==
    [resourceid : {<<"r">>}, linkedaccid : AccountIds, payeraccount : AccountIds,
     cols : [{TagColumns[i] : i \in 1..Len(TagColumns)} -> TagValues]]

NoAsset ==
    [resourceid |-> <<>>, linkedaccid |-> <<>>, payeraccount |-> <<>>,
     cols |-> [n \in {TagColumns[i] : i \in 1..Len(TagColumns)} |-> <<>>]]

\* The engines the pipeline runs with: D1 on tag k1, D2 on tag k2, or both.
TagRow(name, index, key, value) ==
    [vtag_name |-> name, index_number |-> index,
     statements |-> <<[matchExpression |->
                           <<[type |-> "TAG", key |-> key, op |-> "==", value |-> <<"A">>]>>,
                       valueExpression |-> <<"'", value, "'">>]>>]

AssetDbs ==
    {{TagRow("D1", 0, "k1", "X")}, {TagRow("D2", 1, "k2", "Y")},
     {TagRow("D1", 0, "k1", "X"), TagRow("D2", 1, "k2", "Y")}}

\* build_indexes' tag_keys_used: the key of every TAG atom.  (A TAG atom left
\* out of tag_contains shares its key with an entry of tag_exact.)
tag_keys_used(idx) ==
    {idx.tag_exact[i].key : i \in 1..Len(idx.tag_exact)}
        \cup {idx.tag_contains[i].key : i \in 1..Len(idx.tag_contains)}

\* MappingEngine.get_required_tag_keys
get_required_tag_keys(dims) ==
    UNION {tag_keys_used(dims[i].indexes) : i \in 1..Len(dims)}

\* sorted(tag_keys), for the keys of this model
sorted_keys(keys) ==
    LET rank(key) == IF key = "k1" THEN 1 ELSE 2
    IN  CHOOSE q \in [1..Cardinality(keys) -> keys] :
            \A i \in 1..Cardinality(keys), j \in 1..Cardinality(keys) :
                i < j => rank(q[i]) < rank(q[j])

\* The (name, value) pairs of the columns that carry a value: `if value and
\* value != "no tag"`
RECURSIVE CollectTags(_, _)
CollectTags(names, values) ==
    IF names = <<>> THEN <<>>
    ELSE LET rest == CollectTags(Tail(names), Tail(values))
         IN  IF Head(values) # <<>> /\ Head(values) # NoTag
             THEN <<<<Head(names), Head(values)>>>> \o rest
             ELSE rest

\* _extract_tags(asset, tag_column_map): the columns under their tag names
extract_tags(a, column_map) ==
    CollectTags(column_map, [i \in 1..Len(column_map) |-> a.cols[i + FirstTagColumn - 1]])

\* The tags map_resource extracts: `tags[key] = value` for every column whose
\* name starts with customTagValue_, under the column's own name.
resource_tags(a) ==
    CollectTags([i \in 1..Len(TagColumns) |-> ColName(TagColumns[i])],
                [i \in 1..Len(TagColumns) |-> a.cols[TagColumns[i]]])

\* The loop of map_resource / resolve_tags, as a whole
RECURSIVE resolve_chain(_, _, _)
resolve_chain(dims, tag_ctx, dim_ctx) ==
    IF dims = <<>> THEN dim_ctx
    ELSE resolve_chain(Tail(dims), tag_ctx,
                       DictSet(dim_ctx, Head(dims).vtag_name,
                               match(Head(dims).indexes, DefaultValue, tag_ctx, dim_ctx)))

\* pad_aws_account_id: account_id.zfill(12) for a short numeric id
pad_aws_account_id(account_id) ==
    IF /\ account_id # <<>>
       /\ \A i \in 1..Len(account_id) :
              account_id[i] \in {"0", "1", "2", "3", "4", "5", "6", "7", "8", "9"}
       /\ Len(account_id) < 12
    THEN [i \in 1..(12 - Len(account_id)) |-> "0"] \o account_id
    ELSE account_id

\* `a or b` on strings
Or(a, b) == IF a # <<>> THEN a ELSE b

\* MappingEngine.map_resource(resource)
map_resource(a) ==
    [dimensions |-> resolve_chain(sorted_dimensions, resource_tags(a), <<>>),
     account_id |-> Or(pad_aws_account_id(Or(a.linkedaccid, a.payeraccount)), a.payeraccount),
     payer_account |-> pad_aws_account_id(Or(a.payeraccount, a.linkedaccid))]

\* dict.get(key, default)
DictGet(d, key, default) ==
    IF \E i \in 1..Len(d) : d[i][1] = key
    THEN d[CHOOSE i \in 1..Len(d) : d[i][1] = key][2]
    ELSE default

\* `{k: v for k, v in all_dimensions.items() if k in vtag_filter_dimensions}`
\* when a filter is given
filter_dimensions(all_dimensions, filter) ==
    IF filter # {} THEN SelectSeq(all_dimensions, LAMBDA kv : kv[1] \in filter)
    ELSE all_dimensions

\* active_dims
active_dims(filter) ==
    IF filter # {} THEN SelectSeq(sorted_dimensions, LAMBDA d : d.vtag_name \in filter)
    ELSE sorted_dimensions

\* `for dim in active_dims: if dim_value != dim.default_value: any_match = True`
any_match(dimensions, filter) ==
    \E i \in 1..Len(active_dims(filter)) :
        DictGet(dimensions, active_dims(filter)[i].vtag_name, DefaultValue) # DefaultValue

\* The output record
Record(a, dimensions) ==
    [resourceid |-> a.resourceid, linkedaccid |-> a.linkedaccid,
     payeraccount |-> a.payeraccount, dimensions |-> dimensions,
     tags |-> extract_tags(a, tag_column_map)]

\* fetch_and_map up to its loops: the column index map
BuildColumnMap ==
    /\ asset_outcome = "none"
    /\ tag_column_map' = sorted_keys(get_required_tag_keys(sorted_dimensions))
    /\ asset_outcome' = "ready"
    /\ UNCHANGED <<asset, vtag_filter_dimensions, mapped, jsonl>>
    /\ UNCHANGED <<mappingVars, syncVars, groupVars, runVars, pollVars, extraVars>>

\* The body of `for asset in page_assets`.  The call passes tag_column_map= to
\* map_resource, which does not take it: TypeError, caught by the account's
\* `except Exception`, which leaves the loops of this account.
ProcessAsset(a) ==
    /\ asset_outcome = "ready"
    /\ asset' = a
    /\ IF MapResourceRaises
       THEN /\ asset_outcome' = "raised"
            /\ UNCHANGED <<mapped, jsonl>>
       ELSE LET dimensions == filter_dimensions(map_resource(a).dimensions,
                                                vtag_filter_dimensions)
            IN  /\ mapped' = map_resource(a).dimensions
                /\ IF any_match(dimensions, vtag_filter_dimensions)
                   THEN /\ jsonl' = Append(jsonl, Record(a, dimensions))
                        /\ asset_outcome' = "written"
                   ELSE /\ asset_outcome' = "unmatched"
                        /\ UNCHANGED jsonl
    /\ UNCHANGED <<vtag_filter_dimensions, tag_column_map>>
    /\ UNCHANGED <<mappingVars, syncVars, groupVars, runVars, pollVars, extraVars>>

\* =========================================================================
\* Part 5.  The upload groups (sync_service.py, _group_by_payer and
\* _write_upload_csv).  Strings are sequences of characters, so that the
\* virtual-tag string is the text the upstream receives.
\* =========================================================================

MaxLines == 2
MaxResourceIdLen == 255

Unallocated == <<"U", "n", "a", "l", "l", "o", "c", "a", "t", "e", "d">>
NotAvailable == <<"N", "o", "t", " ", "A", "v", "a", "i", "l", "a", "b", "l", "e">>

\* Resource ids: absent, the placeholder, an ordinary one, one of 255 and one
\* of 256 characters.
ResourceIds ==
    {<<>>, NotAvailable, <<"r">>,
     [i \in 1..MaxResourceIdLen |-> "x"], [i \in 1..MaxResourceIdLen + 1 |-> "x"]}

\* Values a dimension can resolve to: any text a valueExpression quotes.
GroupValues == {<<>>, Unallocated, <<"X">>, Unallocated \o <<";", "x">>}

\* The dimensions of a record, in the order of the chain
GroupDimensions ==
    {<<<<<<"D", "1">>, v>>>> : v \in GroupValues}
    \cup {<<<<<<"D", "1">>, v>>, <<<<"D", "2">>, w>>>> :
              v \in GroupValues, w \in {Unallocated, <<"a", ",", "b">>}}

\* A line that is blank or not JSON
InvalidLine == [resourceid |-> <<>>, linkedaccid |-> <<>>, payeraccount |-> <<>>,
                dimensions |-> <<>>, json |-> FALSE]

Lines ==
    {InvalidLine} \cup
    [resourceid : ResourceIds, linkedaccid : {<<>>, <<"q">>},
     payeraccount : {<<>>, <<"p">>}, dimensions : GroupDimensions, json : {TRUE}]

JsonlFiles == UNION {[1..n -> Lines] : n \in 0..MaxLines}

\* sep.join(parts)
RECURSIVE Join(_, _)
Join(parts, sep) ==
    IF parts = <<>> THEN <<>>
    ELSE IF Len(parts) = 1 THEN parts[1]
    ELSE parts[1] \o sep \o Join(Tail(parts), sep)

\* The loop over dims.items(): the pairs name:value of the dimensions whose
\* value is neither empty nor "Unallocated"
RECURSIVE vtag_pairs(_)
vtag_pairs(dims) ==
    IF dims = <<>> THEN <<>>
    ELSE LET dim_name == dims[1][1]
             dim_value == dims[1][2]
         IN  IF dim_value # <<>> /\ dim_value # Unallocated
             THEN <<dim_name \o <<":">> \o dim_value>> \o vtag_pairs(Tail(dims))
             ELSE vtag_pairs(Tail(dims))

\* `resource_id in seen_resources[payer_account]`
never_seen(seen_resources, payer_account, resource_id) == FALSE

already_seen(seen_resources, payer_account, resource_id) ==
    <<payer_account, resource_id>> \in seen_resources

\* groups[payer_account].append(row), creating the list at the first row
append_row(grps, payer_account, row) ==
    IF \E i \in 1..Len(grps) : grps[i][1] = payer_account
    THEN [i \in 1..Len(grps) |->
             IF grps[i][1] = payer_account
             THEN <<payer_account, Append(grps[i][2], row)>> ELSE grps[i]]
    ELSE Append(grps, <<payer_account, <<row>>>>)

\* The body of `for line in f`
group_line(st, record) ==
    LET resource_id == record.resourceid
        payer_account == Or(record.payeraccount, record.linkedaccid)
        vtags == vtag_pairs(record.dimensions)
        marked == st.seen_resources \cup {<<payer_account, resource_id>>}
    IN  IF ~record.json THEN st
        ELSE IF resource_id = <<>> \/ resource_id = NotAvailable THEN st
        ELSE IF Len(resource_id) > MaxResourceIdLen THEN st
        ELSE IF payer_account = <<>> THEN st
        ELSE IF already_seen(st.seen_resources, payer_account, resource_id) THEN st
        ELSE IF vtags = <<>> THEN [st EXCEPT !.seen_resources = marked]
        ELSE [groups |-> append_row(st.groups, payer_account,
                                    [resource_id |-> resource_id,
                                     linked_account |-> record.linkedaccid,
                                     vtags |-> Join(vtags, <<";">>)]),
              seen_resources |-> marked]

RECURSIVE group_lines(_, _)
group_lines(st, lines) ==
    IF lines = <<>> THEN st ELSE group_lines(group_line(st, lines[1]), Tail(lines))

group_by_payer(lines) ==
    group_lines([groups |-> <<>>, seen_resources |-> {}], lines).groups

\* A field is wrapped in double quotes when it holds a comma
csv_field(field) ==
    IF \E i \in 1..Len(field) : field[i] = "," THEN <<"\"">> \o field \o <<"\"">>
    ELSE field

\* The data lines of _write_upload_csv, as their Resource ID, Linked Account
\* and Virtual Tags fields (the other five fields are empty)
write_upload_csv(records) ==
    [i \in 1..Len(records) |->
        [resource_id |-> csv_field(records[i].resource_id),
         linked_account |-> records[i].linked_account,
         vtags |-> csv_field(records[i].vtags)]]

GroupByPayer ==
    /\ gphase = "file"
    /\ groups' = group_by_payer(jsonl_file)
    /\ gphase' = "grouped"
    /\ UNCHANGED <<jsonl_file, csv>>
    /\ UNCHANGED <<mappingVars, syncVars, assetVars, runVars, pollVars, extraVars>>

\* The upload of one payer of the groups, up to its CSV file
WriteUploadCsv(p) ==
    /\ gphase = "grouped"
    /\ p \in 1..Len(groups)
    /\ csv' = write_upload_csv(groups[p][2])
    /\ gphase' = "written"
    /\ UNCHANGED <<jsonl_file, groups>>
    /\ UNCHANGED <<mappingVars, syncVars, assetVars, runVars, pollVars, extraVars>>

\* =============================================================================
\* Part 6.  One run, request by request (umbrella_client.py, the loops of
\* fetch_and_map and of _upload_vtags).  The upstream's answers are inputs.
\* =============================================================================

MaxRunAccounts == 2
MaxRunPayers == 2

\* What the upstream answers to a request: a status, or no answer at all
Responses == {"200", "401", "500", "neterr"}

NoCall == [kind |-> "none", first |-> "200", reauth_ok |-> FALSE, requests |-> 0,
           reauths |-> 0, token |-> FALSE, outcome |-> "none"]

\* How a request ended, from the last answer: response.status_code != 200
\* raises, httpx.RequestError is raised by the client
Outcome(answer) ==
    IF answer = "200" THEN "ok"
    ELSE IF answer = "neterr" THEN "network_error"
    ELSE IF answer = "401" THEN "http_401"
    ELSE "http_error"

\* A request with no handling of 401: the POST of upload_virtual_tags
request_once(kind, first, reauth_ok, second) ==
    [kind |-> kind, first |-> first, reauth_ok |-> reauth_ok, requests |-> 1,
     reauths |-> 0, token |-> TRUE, outcome |-> Outcome(first)]

\* A request with `if response.status_code == 401`: the token is cleared,
\* _ensure_authenticated authenticates (and raises when that fails), the
\* headers are rebuilt and the request is sent once more
request_with_reauth(kind, first, reauth_ok, second) ==
    IF first # "401" THEN request_once(kind, first, reauth_ok, second)
    ELSE IF ~reauth_ok
    THEN [kind |-> kind, first |-> first, reauth_ok |-> reauth_ok, requests |-> 1,
          reauths |-> 1, token |-> FALSE, outcome |-> "auth_failed"]
    ELSE [kind |-> kind, first |-> first, reauth_ok |-> reauth_ok, requests |-> 2,
          reauths |-> 1, token |-> TRUE, outcome |-> Outcome(second)]

\* _ensure_authenticated at the head of a client method: nothing with a valid
\* token, else authenticate(), which succeeds or makes it raise
ensure_authenticated(token, auth_ok) == token \/ auth_ok

AuthFailed(kind) ==
    [kind |-> kind, first |-> "200", reauth_ok |-> FALSE, requests |-> 0,
     reauths |-> 0, token |-> FALSE, outcome |-> "auth_failed"]

\* fetch_assets_stream up to its first page
fetch_assets_stream(token, auth_ok, first, reauth_ok, second) ==
    IF ~ensure_authenticated(token, auth_ok) THEN AuthFailed("assets")
    ELSE request_with_reauth("assets", first, reauth_ok, second)

\* get_accounts: plain-sub-users, then user-management when that gave None; a
\* failed re-authentication raises out of either
get_accounts(token, auth_ok, first, reauth_ok, second, um2_first, um2_second) ==
    IF ~ensure_authenticated(token, auth_ok) THEN AuthFailed("accounts")
    ELSE LET plain == request_with_reauth("accounts", first, reauth_ok, second)
         IN  IF plain.outcome \in {"ok", "auth_failed"} THEN plain
             ELSE request_with_reauth("accounts", um2_first, reauth_ok, um2_second)

\* upload_virtual_tags up to the answer of generate-upload-url
generate_upload_url(token, auth_ok, first, reauth_ok, second) ==
    IF ~ensure_authenticated(token, auth_ok) THEN AuthFailed("upload_url")
    ELSE request_once("upload_url", first, reauth_ok, second)

\* The `finally` of one payer: unlink the paths that were assigned (an OSError,
\* as for a file that was never created, is passed over)
unlink_csv_only(existing, payer, assigned) == existing \ {<<payer, "csv">>}

unlink_paths(existing, payer, assigned) ==
    existing \ {<<payer, path>> : path \in assigned}

\* Where the fetch loop goes after the iteration of account a of n: the
\* `except Exception` of the account ends in `continue`
after_account_raises(a, n, outcome) ==
    IF a = n \/ outcome \notin {"streamed", "type_error"} THEN "after_fetch" ELSE "fetch"

after_account(a, n, outcome) == IF a = n THEN "after_fetch" ELSE "fetch"

RunLeaves(status) ==
    /\ run_pc' = "done"
    /\ run_status' = status

\* One iteration of `for acct_idx, acct_key in enumerate(account_keys)`: the
\* stream's first page, then the assets of the page.  Whatever is raised, the
\* account's `except Exception` logs it and goes on to the next account.
FetchAccountStream ==
    /\ run_pc = "fetch"
    /\ \E a \in 1..account_keys, auth_ok \in BOOLEAN, first \in Responses,
          reauth_ok \in BOOLEAN, second \in Responses, assets \in 0..1, matches \in BOOLEAN :
        LET c == fetch_assets_stream(jwt_token, auth_ok, first, reauth_ok, second)
            raised == c.outcome = "ok" /\ assets > 0 /\ MapResourceRaises
        IN  /\ acct_outcome[a] = "none"
            /\ \A b \in 1..(a - 1) : acct_outcome[b] # "none"
            /\ call' = c
            /\ jwt_token' = c.token
            /\ acct_outcome' =
                   [acct_outcome EXCEPT ![a] = IF c.outcome # "ok" THEN c.outcome
                                               ELSE IF raised THEN "type_error"
                                               ELSE "streamed"]
            /\ run_pc' = after_account(a, account_keys, acct_outcome'[a])
            /\ run_matched' = IF c.outcome = "ok" /\ assets > 0 /\ ~raised /\ matches
                              THEN run_matched + 1 ELSE run_matched
    /\ UNCHANGED <<run_kind, account_keys, payer_groups, payer_idx, payer_outcome,
                   paths, files, run_status>>
    /\ UNCHANGED <<mappingVars, syncVars, assetVars, groupVars, pollVars, extraVars>>

\* _run_sync after fetch_and_map returned
RunAfterFetch ==
    /\ run_pc = "after_fetch"
    /\ IF run_matched = 0
       THEN RunLeaves("completed")
       ELSE /\ run_pc' = "upload"
            /\ UNCHANGED run_status
    /\ UNCHANGED <<run_kind, jwt_token, account_keys, acct_outcome, run_matched,
                   payer_groups, payer_idx, payer_outcome, paths, files, call>>
    /\ UNCHANGED <<mappingVars, syncVars, assetVars, groupVars, pollVars, extraVars>>

\* _upload_vtags up to its loop: no group, or the account lookup, which raises
\* to the caller when get_accounts does
UploadGetAccounts ==
    /\ run_pc = "upload"
    /\ IF payer_groups = 0
       THEN /\ RunLeaves("completed")
            /\ UNCHANGED <<call, jwt_token>>
       ELSE \E auth_ok \in BOOLEAN, first \in Responses, reauth_ok \in BOOLEAN,
               second \in Responses, um2_first \in Responses, um2_second \in Responses :
            LET c == get_accounts(jwt_token, auth_ok, first, reauth_ok, second,
                                  um2_first, um2_second)
            IN  /\ call' = c
                /\ jwt_token' = c.token
                /\ IF c.outcome = "ok"
                   THEN /\ run_pc' = "up_loop"
                        /\ UNCHANGED run_status
                   ELSE RunLeaves("error")
    /\ UNCHANGED <<run_kind, account_keys, acct_outcome, run_matched, payer_groups,
                   payer_idx, payer_outcome, paths, files>>
    /\ UNCHANGED <<mappingVars, syncVars, assetVars, groupVars, pollVars, extraVars>>

\* Head of `for payer_idx, (payer_id, records) in ...`: return after the last
\* payer, `continue` for a payer without account key, else enter the `try`
UploadNextPayer ==
    /\ run_pc = "up_loop"
    /\ IF payer_idx > payer_groups
       THEN /\ RunLeaves("completed")
            /\ UNCHANGED <<payer_idx, payer_outcome>>
       ELSE \E has_account_key \in BOOLEAN :
            IF has_account_key
            THEN /\ run_pc' = "up_csv"
                 /\ UNCHANGED <<payer_idx, payer_outcome, run_status>>
            ELSE /\ payer_outcome' = [payer_outcome EXCEPT ![payer_idx] = "no_key"]
                 /\ payer_idx' = payer_idx + 1
                 /\ UNCHANGED <<run_pc, run_status>>
    /\ UNCHANGED <<run_kind, jwt_token, account_keys, acct_outcome, run_matched,
                   payer_groups, paths, files, call>>
    /\ UNCHANGED <<mappingVars, syncVars, assetVars, groupVars, pollVars, extraVars>>

\* csv_path is assigned and _write_upload_csv writes the file: open() fails,
\* a write fails after the file was created, or the file is complete
UploadCsv ==
    /\ run_pc = "up_csv"
    /\ paths' = {"csv"}
    /\ \E written \in {"no", "partly", "yes"} :
        /\ files' = IF written = "no" THEN files ELSE files \cup {<<payer_idx, "csv">>}
        /\ IF written = "yes"
           THEN /\ run_pc' = "up_gzip"
                /\ UNCHANGED payer_outcome
           ELSE /\ run_pc' = "up_finally"
                /\ payer_outcome' = [payer_outcome EXCEPT ![payer_idx] = "csv_error"]
    /\ UNCHANGED <<run_kind, jwt_token, account_keys, acct_outcome, run_matched,
                   payer_groups, payer_idx, call, run_status>>
    /\ UNCHANGED <<mappingVars, syncVars, assetVars, groupVars, pollVars, extraVars>>

\* gz_path is assigned and the CSV is compressed into it
UploadGzip ==
    /\ run_pc = "up_gzip"
    /\ paths' = {"csv", "gz"}
    /\ \E written \in {"no", "partly", "yes"} :
        /\ files' = IF written = "no" THEN files ELSE files \cup {<<payer_idx, "gz">>}
        /\ IF written = "yes"
           THEN /\ run_pc' = "up_put"
                /\ UNCHANGED payer_outcome
           ELSE /\ run_pc' = "up_finally"
                /\ payer_outcome' = [payer_outcome EXCEPT ![payer_idx] = "gzip_error"]
    /\ UNCHANGED <<run_kind, jwt_token, account_keys, acct_outcome, run_matched,
                   payer_groups, payer_idx, call, run_status>>
    /\ UNCHANGED <<mappingVars, syncVars, assetVars, groupVars, pollVars, extraVars>>

\* upload_virtual_tags: the presigned URL is requested, its answer is read and
\* the file is PUT; whatever it raises, `except Exception` logs it
UploadVirtualTags ==
    /\ run_pc = "up_put"
    /\ \E auth_ok \in BOOLEAN, first \in Responses, well_formed \in BOOLEAN, put \in Responses :
        LET c == generate_upload_url(jwt_token, auth_ok, first, FALSE, first)
        IN  /\ call' = c
            /\ jwt_token' = c.token
            /\ payer_outcome' =
                   [payer_outcome EXCEPT ![payer_idx] =
                       IF c.outcome # "ok" THEN c.outcome
                       ELSE IF ~well_formed THEN "malformed"
                       ELSE IF put = "neterr" THEN "network_error"
                       ELSE IF put # "200" THEN "put_error"
                       ELSE "uploaded"]
    /\ run_pc' = "up_finally"
    /\ UNCHANGED <<run_kind, account_keys, acct_outcome, run_matched, payer_groups,
                   payer_idx, paths, files, run_status>>
    /\ UNCHANGED <<mappingVars, syncVars, assetVars, groupVars, pollVars, extraVars>>

\* The `finally` of the payer, then the next iteration
UploadFinally ==
    /\ run_pc = "up_finally"
    /\ files' = unlink_paths(files, payer_idx, paths)
    /\ paths' = {}
    /\ payer_idx' = payer_idx + 1
    /\ run_pc' = "up_loop"
    /\ UNCHANGED <<run_kind, jwt_token, account_keys, acct_outcome, run_matched,
                   payer_groups, payer_outcome, call, run_status>>
    /\ UNCHANGED <<mappingVars, syncVars, assetVars, groupVars, pollVars, extraVars>>

\* =========================================================================
\* Part 7.  The import-status monitor (sync_service.py, get_import_status; the
\* handler of /sync/import-status runs it in an executor thread, so polls
\* overlap).  A record is modelled by its phase.
\* =========================================================================

NumPolls == 2
MaxPollUploads == 2

Polls == 1..NumPolls
\* The uploads of the history, in its order
UploadIds == 1..MaxPollUploads

IdlePoll == [pc |-> "idle", begin_cache |-> [u \in UploadIds |-> "none"],
             begin_observed |-> [u \in UploadIds |-> "none"],
             uploads_to_fetch |-> {}, results |-> [u \in UploadIds |-> "none"],
             requested |-> {}, headers |-> FALSE]

\* `cached and cached.get("phase") in ("completed", "failed", "error")`
always_fetch(cache, upload_id) == FALSE

is_cached(cache, upload_id) == cache[upload_id] \in {"completed", "failed", "error"}

\* `if entry.get("phase") in ("completed", "failed")`
cacheable(phase) == phase \in {"completed", "failed"}

\* The record built from the answer to the status request
entry_phase(answer, phase) ==
    IF answer = "200" THEN phase
    ELSE IF answer = "neterr" THEN "fetch_error"
    ELSE "unknown"

\* get_import_status up to `if not uploads_to_fetch`: the cached records are
\* taken, the other uploads are collected; with none to fetch it returns
PollBegin(p) ==
    /\ poll[p].pc = "idle"
    /\ LET to_fetch == {u \in UploadIds : ~is_cached(import_status_cache, u)}
       IN  poll' = [poll EXCEPT ![p] =
                       [pc |-> IF to_fetch = {} THEN "returned" ELSE "accounts",
                        begin_cache |-> import_status_cache,
                        begin_observed |-> observed,
                        uploads_to_fetch |-> to_fetch,
                        results |-> [u \in UploadIds |->
                                        IF u \in to_fetch THEN "none"
                                        ELSE import_status_cache[u]],
                        requested |-> {},
                        headers |-> FALSE]]
    /\ UNCHANGED <<import_status_cache, upstream_phase, observed>>
    /\ UNCHANGED <<mappingVars, syncVars, assetVars, groupVars, runVars, extraVars>>

\* _ensure_authenticated, get_accounts and the headers: an exception or an
\* empty account list makes the poll return what it has
PollAccounts(p) ==
    /\ poll[p].pc = "accounts"
    /\ \E ok \in BOOLEAN :
        poll' = [poll EXCEPT ![p].pc = IF ok THEN "fetch" ELSE "returned",
                             ![p].headers = ok]
    /\ UNCHANGED <<import_status_cache, upstream_phase, observed>>
    /\ UNCHANGED <<mappingVars, syncVars, assetVars, groupVars, runVars, extraVars>>

\* One iteration of `for upload_info in uploads_to_fetch`: the request, the
\* record, the cache, the result
PollFetch(p) ==
    /\ poll[p].pc = "fetch"
    /\ \E answer \in {"200", "500", "neterr"} :
        LET upload_id == Least(poll[p].uploads_to_fetch \ poll[p].requested)
            phase == entry_phase(answer, upstream_phase[upload_id])
            done == poll[p].requested \cup {upload_id} = poll[p].uploads_to_fetch
        IN  /\ import_status_cache' =
                   IF cacheable(phase)
                   THEN [import_status_cache EXCEPT ![upload_id] = phase]
                   ELSE import_status_cache
            /\ observed' = [observed EXCEPT ![upload_id] = phase]
            /\ poll' = [poll EXCEPT ![p].requested = @ \cup {upload_id},
                                    ![p].results[upload_id] = phase,
                                    ![p].pc = IF done THEN "returned" ELSE "fetch"]
    /\ UNCHANGED upstream_phase
    /\ UNCHANGED <<mappingVars, syncVars, assetVars, groupVars, runVars, extraVars>>

\* The thread of the poll ends; the next request starts another poll
PollEnd(p) ==
    /\ poll[p].pc = "returned"
    /\ poll' = [poll EXCEPT ![p] = IdlePoll]
    /\ UNCHANGED <<import_status_cache, upstream_phase, observed>>
    /\ UNCHANGED <<mappingVars, syncVars, assetVars, groupVars, runVars, extraVars>>

\* The upstream finishes an import: a terminal phase stays
UpstreamFinishes(u, phase) ==
    /\ upstream_phase[u] = "processing"
    /\ upstream_phase' = [upstream_phase EXCEPT ![u] = phase]
    /\ UNCHANGED <<import_status_cache, observed, poll>>
    /\ UNCHANGED <<mappingVars, syncVars, assetVars, groupVars, runVars, extraVars>>

\* =========================================================================
\* Part 8: the progress broadcaster (services/progress_tracker.py)
\* =========================================================================

MaxSubscribers == 2   \* queues the SSE handlers may hold at once
MaxCalls == 4         \* operations on the tracker in one behaviour
MaxTime == 2          \* readings of the clock

Queues == 1..MaxSubscribers
None == "None"

\* The states the operations below are called with.
AgentState == {"starting", "mapping", "complete", "error", "cancelled"}
Terminal == {"complete", "error", "cancelled"}

\* asyncio.Queue() is built without a maxsize: 0, which asyncio reads as
\* "no limit".
maxsize == 0

\* ProgressTracker.__init__ (and what reset() puts back). A timestamp that is
\* None is 0 here: the clock starts at 1, and the code tests timestamps for
\* truth, which None and 0 fail alike.
InitialTracker ==
    [progress |-> 0, message |-> "", started_at |-> 0, completed_at |-> 0,
     error |-> None, step_count |-> 0, total_steps |-> 0, sub_progress |-> 0,
     sub_message |-> "", stats |-> {}]

\* asyncio.Queue.full()
full(queue) == maxsize > 0 /\ Len(queue) >= maxsize

\* ProgressTracker.elapsed_seconds: -1 is None
elapsed_seconds(tr, time) ==
    IF tr.started_at = 0 THEN -1
    ELSE (IF tr.completed_at = 0 THEN time ELSE tr.completed_at) - tr.started_at

\* ProgressTracker.to_dict
to_dict(st, tr, time) ==
    [state |-> st, progress |-> tr.progress, message |-> tr.message,
     sub_progress |-> tr.sub_progress, sub_message |-> tr.sub_message,
     step |-> tr.step_count, total_steps |-> tr.total_steps,
     elapsed_seconds |-> elapsed_seconds(tr, time),
     error |-> tr.error, stats |-> tr.stats]

\* ProgressTracker._broadcast: put_nowait to every subscribed queue; a queue
\* that raises QueueFull is discarded from the subscribers.
broadcast_queues(data) ==
    [q \in Queues |-> IF q \in subscribers /\ ~full(queues[q])
                      THEN Append(queues[q], data) ELSE queues[q]]

dead_queues == {q \in subscribers : full(queues[q])}

\* What an operation leaves of the rest of the program.
notTracker == <<mappingVars, assetVars, groupVars, runVars, pollVars, reloadVars, historyVars, streamVars, validateVars, moreVars>>

\* What an operation leaves of the coordinator.
trackerRest == <<engine, cancelled, starting, upload_phase, last_result,
                 upload_history, next_upload_id, response, task>>

Called(op, arg) ==
    /\ last_call.calls < MaxCalls
    /\ last_call' = [op |-> op, arg |-> arg, calls |-> last_call.calls + 1,
                     subs |-> subscribers,
                     pending |-> [q \in Queues |-> Len(queues[q])]]

_broadcast(st, tr) ==
    /\ queues' = broadcast_queues(to_dict(st, tr, now))
    /\ subscribers' = subscribers \ dead_queues

\* ProgressTracker.subscribe
subscribe(q) ==
    /\ q \notin subscribers
    /\ Called("subscribe", None)
    /\ subscribers' = subscribers \cup {q}
    /\ queues' = [queues EXCEPT ![q] = <<>>]
    /\ UNCHANGED <<tracker, now, tracker_state, trackerRest>>
    /\ UNCHANGED notTracker

\* ProgressTracker.unsubscribe
unsubscribe(q) ==
    /\ q \in subscribers
    /\ Called("unsubscribe", None)
    /\ subscribers' = subscribers \ {q}
    /\ UNCHANGED <<tracker, queues, now, tracker_state, trackerRest>>
    /\ UNCHANGED notTracker

\* The SSE generator takes the next snapshot of its queue.
queue_get(q) ==
    /\ q \in subscribers
    /\ queues[q] # <<>>
    /\ queues' = [queues EXCEPT ![q] = Tail(queues[q])]
    /\ last_call' = [last_call EXCEPT !.op = "get"]
    /\ UNCHANGED <<tracker, subscribers, now, tracker_state, trackerRest>>
    /\ UNCHANGED notTracker

\* ProgressTracker.set_state; the optional progress is <<>> or <<percentage>>
state_fields(tr, state, message, progress) ==
    LET t1 == [tr EXCEPT !.message = message,
                         !.progress = IF progress = <<>> THEN @ ELSE progress[1]]
        t2 == IF state = "starting"
              THEN [t1 EXCEPT !.started_at = now, !.completed_at = 0,
                              !.error = None, !.stats = {}, !.progress = 0]
              ELSE t1
    IN  IF state \in Terminal
        THEN [t2 EXCEPT !.completed_at = now,
                        !.error = IF state = "error" THEN message ELSE @]
        ELSE t2

set_state(state, message, progress) ==
    /\ Called("set_state", state)
    /\ tracker_state' = state
    /\ tracker' = state_fields(tracker, state, message, progress)
    /\ _broadcast(state, tracker')
    /\ UNCHANGED <<now, trackerRest>>
    /\ UNCHANGED notTracker

\* ProgressTracker.set_progress: the percentage is clamped to 0..100
clamp(progress) == IF progress < 0 THEN 0 ELSE IF progress > 100 THEN 100 ELSE progress

set_progress(progress, message) ==
    /\ Called("set_progress", None)
    /\ tracker' = [tracker EXCEPT !.progress = clamp(progress),
                                  !.message = IF message = None THEN @ ELSE message]
    /\ _broadcast(tracker_state, tracker')
    /\ UNCHANGED <<now, tracker_state, trackerRest>>
    /\ UNCHANGED notTracker

\* ProgressTracker.set_sub_progress
set_sub_progress(progress) ==
    /\ Called("set_sub_progress", None)
    /\ tracker' = [tracker EXCEPT !.sub_progress = clamp(progress)]
    /\ _broadcast(tracker_state, tracker')
    /\ UNCHANGED <<now, tracker_state, trackerRest>>
    /\ UNCHANGED notTracker

\* ProgressTracker.set_total_steps: no broadcast
set_total_steps(total) ==
    /\ Called("set_total_steps", None)
    /\ tracker' = [tracker EXCEPT !.total_steps = total, !.step_count = 0]
    /\ UNCHANGED <<subscribers, queues, now, tracker_state, trackerRest>>
    /\ UNCHANGED notTracker

\* ProgressTracker.increment_step
increment_step ==
    /\ Called("increment_step", None)
    /\ tracker' = [tracker EXCEPT
                     !.step_count = @ + 1,
                     !.progress = IF tracker.total_steps > 0
                                  THEN ((tracker.step_count + 1) * 100) \div tracker.total_steps
                                  ELSE @]
    /\ _broadcast(tracker_state, tracker')
    /\ UNCHANGED <<now, tracker_state, trackerRest>>
    /\ UNCHANGED notTracker

\* ProgressTracker.set_stat: the snapshot changes, nothing is put to a queue
set_stat(key, value) ==
    /\ Called("set_stat", key)
    /\ tracker' = [tracker EXCEPT !.stats = {kv \in @ : kv[1] # key} \cup {<<key, value>>}]
    /\ UNCHANGED <<subscribers, queues, now, tracker_state, trackerRest>>
    /\ UNCHANGED notTracker

\* ProgressTracker.reset: every field back to its initial value, the
\* subscribers kept, nothing put to a queue
tracker_reset ==
    /\ Called("reset", None)
    /\ tracker_state' = "idle"
    /\ tracker' = InitialTracker
    /\ UNCHANGED <<subscribers, queues, now, trackerRest>>
    /\ UNCHANGED notTracker

\* time.time() moves on
Tick ==
    /\ now < MaxTime
    /\ now' = now + 1
    /\ last_call' = [last_call EXCEPT !.op = "tick"]
    /\ UNCHANGED <<tracker, subscribers, queues, syncVars>>
    /\ UNCHANGED notTracker

\* =========================================================================
\* Part 9: a reload of the dimensions beside a mapping. The handlers of
\* POST, PUT and DELETE /dimensions run on the event loop and call
\* load_dimensions after their write; map_resource runs in the thread of the
\* background task, on the same MappingEngine.
\* =========================================================================

MaxReloads == 1   \* mutations of the table in one behaviour

IdleLoader == [pc |-> "idle", pre |-> <<>>, rows |-> <<>>, next |-> 1, reloads |-> 0]
IdleMapper == [pc |-> "idle", i |-> 0, seen |-> <<>>, complete |-> {}]

notReload == <<syncVars, resolverVars, assetVars, groupVars, runVars, pollVars, trackerVars, historyVars, streamVars, validateVars, moreVars>>

\* The list load_dimensions builds from the rows the query returned.
loaded(rows) == [i \in 1..Len(rows) |-> Dimension(rows[i])]

\* DELETE FROM dimensions WHERE vtag_name = ?
delete_row(db, name) == {row \in db : row.vtag_name # name}

\* A handler writes the table and enters load_dimensions: the three clear()
\* calls empty the containers in place, and the query returns the rows.
LoadClear(db) ==
    /\ loader.pc = "idle"
    /\ loader.reloads < MaxReloads
    /\ db_dimensions' = db
    /\ sorted_dimensions' = <<>>
    /\ \E rows \in QueryRows(db) :
          /\ loader' = [pc |-> "append", pre |-> sorted_dimensions, rows |-> rows,
                        next |-> 1, reloads |-> loader.reloads + 1]
          /\ mapper' = IF mapper.pc = "loop"
                       THEN [mapper EXCEPT !.complete = @ \cup {loaded(rows)}]
                       ELSE mapper
    /\ UNCHANGED <<chain_pos, contextVars>>
    /\ UNCHANGED notReload

\* One iteration of `for row in rows`: the dimension is appended
LoadAppend ==
    /\ loader.pc = "append"
    /\ loader.next <= Len(loader.rows)
    /\ sorted_dimensions' = Append(sorted_dimensions, Dimension(loader.rows[loader.next]))
    /\ loader' = [loader EXCEPT !.next = @ + 1]
    /\ UNCHANGED <<mapper, db_dimensions, chain_pos, contextVars>>
    /\ UNCHANGED notReload

\* load_dimensions returns
LoadReturn ==
    /\ loader.pc = "append"
    /\ loader.next = Len(loader.rows) + 1
    /\ loader' = [loader EXCEPT !.pc = "idle", !.pre = <<>>, !.rows = <<>>, !.next = 1]
    /\ UNCHANGED <<mapper, db_dimensions, sorted_dimensions, chain_pos, contextVars>>
    /\ UNCHANGED notReload

\* map_resource up to its loop; _loaded is True since startup. The complete
\* lists of this mapping are the one in place and, with a reload under way,
\* the one before it and the one it is building.
MapBegin(tags) ==
    /\ mapper.pc \in {"idle", "returned"}
    /\ tag_context' = tags
    /\ dimension_context' = <<>>
    /\ mapper' = [pc |-> "loop", i |-> 0, seen |-> <<>>,
                  complete |-> IF loader.pc = "idle" THEN {sorted_dimensions}
                               ELSE {loader.pre, loaded(loader.rows)}]
    /\ UNCHANGED <<loader, db_dimensions, sorted_dimensions, chain_pos>>
    /\ UNCHANGED notReload

\* One iteration of `for dim in self._sorted_dimensions`: the list iterator
\* reads the element at its index if the list has one there.
MapStep ==
    /\ mapper.pc = "loop"
    /\ mapper.i < Len(sorted_dimensions)
    /\ LET dim == sorted_dimensions[mapper.i + 1]
       IN  /\ dimension_context' =
                 DictSet(dimension_context, dim.vtag_name,
                         match(dim.indexes, DefaultValue, tag_context, dimension_context))
           /\ mapper' = [mapper EXCEPT !.i = @ + 1, !.seen = Append(@, dim)]
    /\ UNCHANGED <<loader, tag_context, db_dimensions, sorted_dimensions, chain_pos>>
    /\ UNCHANGED notReload

\* The iterator finds no element at its index: the loop ends and
\* map_resource returns
MapReturn ==
    /\ mapper.pc = "loop"
    /\ mapper.i >= Len(sorted_dimensions)
    /\ mapper' = [mapper EXCEPT !.pc = "returned"]
    /\ UNCHANGED <<loader, contextVars, db_dimensions, sorted_dimensions, chain_pos>>
    /\ UNCHANGED notReload

\* =========================================================================
\* Part 10: the upload history over a sequence of runs
\* (SyncService._save_last_result, _append_upload_history)
\* =========================================================================

MaxBatch == 2     \* payers of one run
MaxNewIds == 8    \* upload ids the upstream issues in one behaviour

notHistory == <<mappingVars, assetVars, groupVars, runVars, pollVars, trackerVars, reloadVars, streamVars, validateVars, moreVars>>

\* The ids of a set in the order the upstream issued them.
InIssueOrder(S) ==
    CHOOSE seq \in [1..Cardinality(S) -> S] :
        \A i \in 1..Cardinality(S), j \in 1..Cardinality(S) : i < j => seq[i] < seq[j]

\* A run ends and stores its result: the upstream issued one id for each of
\* the run's MaxBatch payers, and `succeeded` are the ids whose upload went
\* through, in the order of the payer loop. A run without a successful upload
\* (an error, a cancel, nothing matched) has none.
RunStoresResult(succeeded) ==
    /\ next_upload_id + MaxBatch - 1 <= MAX_UPLOAD_HISTORY + MaxNewIds
    /\ LET uploads == InIssueOrder(succeeded)
       IN  /\ last_result' = Result("completed", 0, 0, 0)
           /\ upload_history' = save_last_result(uploads)
           /\ appended' = appended \o AppendNew(upload_history, uploads)
    /\ next_upload_id' = next_upload_id + MaxBatch
    /\ UNCHANGED <<engine, cancelled, starting, upload_phase, tracker_state, response, task>>
    /\ UNCHANGED notHistory

\* =========================================================================
\* Part 11: the loops of TaggingEngine.fetch_and_map over the generator
\* UmbrellaClient.fetch_assets_stream: page requests, batches, max_records
\* and the cancel flag of the engine.
\* =========================================================================

MaxFetchAccounts == 3   \* account keys of the run
MaxPages == 2           \* pages the upstream holds for one account
MaxRecords == 2         \* max_records ranges over 0..MaxRecords

\* fetch_assets_stream(..., batch_size=1000): fetch_and_map passes none
batch_size == 1000

\* Rows of one page of the upstream.
PageSizes == {500, 1000, 1500}

notStream == <<syncVars, mappingVars, assetVars, groupVars, runVars, pollVars,
               trackerVars, reloadVars, historyVars, validateVars, moreVars>>

limit_ignored(f) == FALSE

\* `max_records > 0 and stats.total_assets >= max_records`
limit_reached(f) == f.max_records > 0 /\ f.total_assets >= f.max_records

\* The account's iteration ends (break, exhausted stream or exception): the
\* generator is dropped and the account loop goes to its next key.
next_account(f) ==
    [f EXCEPT !.pc = "acct", !.acct = @ + 1, !.batch = 0, !.data = 0,
              !.token = FALSE, !.pages = 0, !.page_assets = 0, !.resume = "none"]

\* `except Exception as acct_err: log_timing(...); continue`: the account is
\* skipped; `failed` counts the accounts that ended this way.
account_failed(f) == next_account([f EXCEPT !.failed = @ + 1])

\* The counters of one mapped asset: matched_assets or unmatched_assets
asset_counted(f, any_matched) ==
    IF any_matched THEN [f EXCEPT !.matched_assets = @ + 1]
    ELSE [f EXCEPT !.unmatched_assets = @ + 1]

\* Head of `for acct_idx, acct_key in enumerate(account_keys)`; the generator
\* object is created and runs up to its first request at the first next().
FetchHead ==
    /\ fetch.pc = "acct"
    /\ fetch' = IF fetch.cancel_requested \/ limit_reached(fetch) \/ fetch.acct > fetch.accts
                THEN [fetch EXCEPT !.pc = "done"]
                ELSE [fetch EXCEPT !.pc = "send"]
    /\ UNCHANGED notStream

\* client.get(full_url, headers=headers) is sent. The request is late when the
\* cancel was requested before the generator came to send it.
StreamSend ==
    /\ fetch.pc = "send"
    /\ fetch' = [fetch EXCEPT !.pc = "in_flight", !.pages = @ + 1,
                              !.late = @ \/ (fetch.cancel_requested
                                               /\ fetch.pages + 1 > fetch.allowed)]
    /\ UNCHANGED notStream

\* The answer: an error (the generator raises into the account's `except`),
\* or a page of rows with or without a nextToken.
StreamReceive ==
    /\ fetch.pc = "in_flight"
    /\ \/ fetch' = account_failed(fetch)
       \/ \E rows \in PageSizes, token \in BOOLEAN :
            /\ token => fetch.pages < MaxPages
            /\ fetch' = [fetch EXCEPT !.pc = "fill", !.data = rows, !.token = token]
    /\ UNCHANGED notStream

\* `for asset in data: batch.append(asset); if len(batch) >= batch_size: yield`
\* up to the next yield, then the nextToken test and the last yield.
StreamFill ==
    /\ fetch.pc = "fill"
    /\ fetch' =
         IF fetch.batch + fetch.data >= batch_size
         THEN [fetch EXCEPT !.pc = "page_body", !.page_assets = batch_size,
                            !.data = fetch.batch + fetch.data - batch_size,
                            !.batch = 0, !.resume = "fill"]
         ELSE IF fetch.token
         THEN [fetch EXCEPT !.pc = "send", !.batch = @ + fetch.data, !.data = 0]
         ELSE IF fetch.batch + fetch.data > 0
         THEN [fetch EXCEPT !.pc = "page_body", !.page_assets = fetch.batch + fetch.data,
                            !.data = 0, !.batch = 0, !.resume = "stop"]
         ELSE next_account(fetch)
    /\ UNCHANGED notStream

\* The body of `for page_assets in ...` up to the asset loop
PageBody ==
    /\ fetch.pc = "page_body"
    /\ fetch' = IF fetch.cancel_requested \/ limit_reached(fetch)
                THEN next_account(fetch)
                ELSE [fetch EXCEPT !.pc = "asset"]
    /\ UNCHANGED notStream

\* The generator is resumed by the page loop.
resume_stream(f) ==
    IF f.resume = "fill" THEN [f EXCEPT !.pc = "fill", !.page_assets = 0]
    ELSE next_account(f)

\* One iteration of `for asset in page_assets`: at the end of the batch and on
\* either break the page loop asks the generator for its next batch.
AssetStep ==
    /\ fetch.pc = "asset"
    /\ \E any_matched \in BOOLEAN :
         fetch' =
            IF fetch.page_assets = 0 \/ fetch.cancel_requested \/ limit_reached(fetch)
            THEN resume_stream(fetch)
            ELSE IF MapResourceRaises
            THEN account_failed([fetch EXCEPT !.total_assets = @ + 1])
            ELSE asset_counted([fetch EXCEPT !.total_assets = @ + 1,
                                             !.page_assets = @ - 1], any_matched)
    /\ UNCHANGED notStream

\* TaggingEngine.cancel() from the request handler. The page requests of the
\* account that the cancel finds sent, or past their last check and about to
\* be sent, are the ones allowed to complete.
CancelFetch ==
    /\ fetch.pc # "done"
    /\ ~fetch.cancel_requested
    /\ fetch' = [fetch EXCEPT !.cancel_requested = TRUE,
                              !.allowed = fetch.pages + IF fetch.pc = "send" THEN 1 ELSE 0]
    /\ UNCHANGED notStream

\* =========================================================================
\* Part 12: validate_dimension_json (core/dsl_parser.py)
\* =========================================================================

\* Atoms as they can be written: two that parse, one with an unknown source,
\* one with an unknown operator, one whose literal is not closed.
WrittenAtoms ==
    {[type |-> "TAG", key |-> "k1", op |-> "==", value |-> <<"A">>],
     [type |-> "DIM", key |-> "D1", op |-> "CONTAINS", value |-> <<"A">>],
     [type |-> "LABEL", key |-> "k1", op |-> "==", value |-> <<"A">>],
     [type |-> "TAG", key |-> "k1", op |-> "!=", value |-> <<"A">>],
     [type |-> "TAG", key |-> "k1", op |-> "==", value |-> Unclosed]}

\* Match expressions: absent (or empty), one atom, two atoms joined by ' || '.
WrittenExprs == {<<>>} \cup {<<a>> : a \in WrittenAtoms}
                   \cup {<<a, b>> : a \in WrittenAtoms, b \in WrittenAtoms}

\* Value expressions: absent, '' and 'X'.
WrittenValues == {<<>>, <<"'", "'">>, <<"'", "X", "'">>}

WrittenStatements == [matchExpression : WrittenExprs, valueExpression : WrittenValues]

\* A list validate has not returned yet.
Pending == <<"pending">>

\* "statements": a list of at most MaxStmts statements, or (is_list false)
\* something that is no list.
Contents ==
    [name : {<<>>, <<"D", "1">>}, is_list : {FALSE}, statements : {<<>>}]
    \cup
    [name : {<<>>, <<"D", "1">>}, is_list : {TRUE},
     statements : {<<>>} \cup {<<st>> : st \in WrittenStatements}
                    \cup {<<s1, s2>> : s1 \in {st \in WrittenStatements :
                                                  st.valueExpression # <<>>},
                                      s2 \in {st \in WrittenStatements :
                                                  Len(st.matchExpression) = 1}}]

notValidate == <<syncVars, mappingVars, assetVars, groupVars, runVars, pollVars,
                 trackerVars, reloadVars, historyVars, streamVars, moreVars>>

\* The errors of one statement
statement_errors(stmt) ==
    IF stmt.matchExpression = <<>> THEN <<"missing matchExpression">>
    ELSE IF stmt.valueExpression = <<>> THEN <<"missing valueExpression">>
    ELSE (IF parse_expression(stmt.matchExpression) = <<>>
          THEN <<"cannot parse matchExpression">> ELSE <<>>)
         \o (IF parse_value_expression(stmt.valueExpression) = <<>>
             THEN <<"empty valueExpression">> ELSE <<>>)

RECURSIVE statements_errors(_)
statements_errors(stmts) ==
    IF stmts = <<>> THEN <<>>
    ELSE statement_errors(Head(stmts)) \o statements_errors(Tail(stmts))

\* validate_dimension_json
validate_dimension_json(c) ==
    (IF c.name = <<>> THEN <<"missing name">> ELSE <<>>)
    \o (IF ~c.is_list THEN <<"statements must be a list">>
        ELSE statements_errors(c.statements))

\* POST /dimensions/validate
Validate ==
    /\ errors = Pending
    /\ errors' = validate_dimension_json(content)
    /\ UNCHANGED content
    /\ UNCHANGED notValidate

\* =========================================================================
\* Part 13: UmbrellaClient.fetch_assets_stream for one account, row by row:
\* the token of each request, the pages, the batches it yields.
\* =========================================================================

MaxStreamPages == 3    \* pages the upstream holds for the account
MaxPageRows == 2       \* rows of one page: 0..MaxPageRows
MaxBatchSize == 2      \* the batch_size argument ranges over 1..MaxBatchSize
MaxMaxPages == 2       \* the max_pages argument ranges over 0..MaxMaxPages

\* nextToken values of the upstream; "" is an absent, null or empty one
Tokens == {"t1", "t2"}

notPager == <<syncVars, mappingVars, assetVars, groupVars, runVars, pollVars,
              trackerVars, reloadVars, historyVars, streamVars, validateVars,
              mergeVars, presignedVars, csvgenVars, authVars>>

\* The generator object before its first next(): the locals of the call
EnterStream(size, pages) ==
    [pc |-> "enter", batch_size |-> size, max_pages |-> pages,
     next_token |-> "", batch |-> <<>>, page_count |-> 0,
     data |-> <<>>, result_token |-> "",
     requests |-> <<>>, responses |-> <<>>, fetched |-> <<>>, yielded |-> <<>>]

RECURSIVE Concat(_)
Concat(seqs) == IF seqs = <<>> THEN <<>> ELSE Head(seqs) \o Concat(Tail(seqs))

\* Rows are numbered in the order the upstream serves them
fresh_rows(p, n) == [i \in 1..n |-> Len(Concat(p.fetched)) + i]

token_dropped(p) == ""

\* `if next_token: request_params.append(("token", next_token))`
request_token(p) == p.next_token

batch_never_full(p) == FALSE

\* `if len(batch) >= batch_size`
batch_full(p) == Len(p.batch) >= p.batch_size

\* `if max_pages > 0 and page_count >= max_pages`
page_limit(p) == p.max_pages > 0 /\ p.page_count >= p.max_pages

\* self._ensure_authenticated() at the first next(): it returns or raises
StreamEnter ==
    /\ pager.pc = "enter"
    /\ \E ok \in BOOLEAN :
          pager' = [pager EXCEPT !.pc = IF ok THEN "send" ELSE "raised"]
    /\ UNCHANGED notPager

\* Head of `while True` up to client.get(full_url, headers=headers)
PageRequest ==
    /\ pager.pc = "send"
    /\ pager' = [pager EXCEPT
                   !.pc = "in_flight",
                   !.page_count = @ + 1,
                   !.requests = Append(@, [page |-> pager.page_count + 1,
                                           token |-> request_token(pager)])]
    /\ UNCHANGED notPager

\* A 200 answer of the upstream: `data` and `nextToken` of result
page_received(p, rows, token) ==
    [p EXCEPT !.pc = "fill", !.data = rows, !.result_token = token,
              !.responses = Append(@, token), !.fetched = Append(@, rows)]

\* The answer of the first get: 200; 401, after which the client
\* re-authenticates (or raises) and sends the same full_url again; another
\* status or a RequestError, which raise.
PageResponse ==
    /\ pager.pc = "in_flight"
    /\ \/ \E n \in 0..MaxPageRows, token \in Tokens \cup {""} :
            /\ token # "" => pager.page_count < MaxStreamPages
            /\ pager' = page_received(pager, fresh_rows(pager, n), token)
       \/ \E ok \in BOOLEAN :
            pager' = IF ok
                     THEN [pager EXCEPT
                             !.pc = "retry",
                             !.requests = Append(@, [page |-> pager.page_count,
                                                     token |-> request_token(pager)])]
                     ELSE [pager EXCEPT !.pc = "raised"]
       \/ pager' = [pager EXCEPT !.pc = "raised"]
    /\ UNCHANGED notPager

\* The answer of the get after the 401: 200 or `raise Exception`
RetryResponse ==
    /\ pager.pc = "retry"
    /\ \/ \E n \in 0..MaxPageRows, token \in Tokens \cup {""} :
            /\ token # "" => pager.page_count < MaxStreamPages
            /\ pager' = page_received(pager, fresh_rows(pager, n), token)
       \/ pager' = [pager EXCEPT !.pc = "raised"]
    /\ UNCHANGED notPager

\* One iteration of `for asset in data`, with its yield
StreamAppend ==
    /\ pager.pc = "fill"
    /\ pager.data # <<>>
    /\ LET appended_to == [pager EXCEPT !.batch = Append(@, Head(pager.data)),
                                        !.data = Tail(@)]
       IN  pager' = IF batch_full(appended_to)
                    THEN [appended_to EXCEPT !.yielded = Append(@, appended_to.batch),
                                             !.batch = <<>>]
                    ELSE appended_to
    /\ UNCHANGED notPager

\* After the loop over data: `next_token = result.get("nextToken")`, the two
\* breaks, and past the loop `if batch: yield batch`
StreamPageEnd ==
    /\ pager.pc = "fill"
    /\ pager.data = <<>>
    /\ LET p == [pager EXCEPT !.next_token = pager.result_token]
       IN  pager' = IF p.next_token # "" /\ ~page_limit(p)
                    THEN [p EXCEPT !.pc = "send"]
                    ELSE [p EXCEPT !.pc = "ended",
                                   !.yielded = IF p.batch # <<>> THEN Append(@, p.batch)
                                               ELSE @,
                                   !.batch = <<>>]
    /\ UNCHANGED notPager

\* =========================================================================
\* Part 14: the tags of an asset, as MappingEngine.map_resource collects them
\* for the resolution and as _extract_tags collects them for the JSONL record.
\* =========================================================================

notMerge == <<syncVars, mappingVars, assetVars, groupVars, runVars, pollVars,
              trackerVars, reloadVars, historyVars, streamVars, validateVars,
              pagerVars, presignedVars, csvgenVars, authVars>>

\* The customTags arrays: at most one entry for each of k1 and k2
CustomTagLists ==
    {<<>>} \cup {<<<<k, v>>>> : k \in {"k1", "k2"}, v \in {<<"A">>, NoTag}}
    \cup {<<<<"k1", v>>, <<"k2", w>>>> : v \in {<<"A">>, NoTag}, w \in {<<"A">>, NoTag}}

\* An asset row: its customTags array, its column customTagValue_4 (the column
\* of tag k1 in tag_column_map) and its column 'Tag: k1'
TaggedAssets ==
    [customTags : CustomTagLists,
     customTagValue_4 : {<<>>, <<"B">>, NoTag},
     tag_k1 : {<<>>, <<"C">>, NoTag}]

NoTagged == [asset |-> [customTags |-> <<>>, customTagValue_4 |-> <<>>, tag_k1 |-> <<>>],
             tag_context |-> <<>>, tags |-> <<>>, done |-> FALSE]

\* `if value and value != "no tag"`
has_value(value) == value # <<>> /\ value # NoTag

\* map_resource, Method 1: `tags[tag.get("key", "")] = tag.get("value", "")`
RECURSIVE custom_tags_all(_, _)
custom_tags_all(tags, custom_tags) ==
    IF custom_tags = <<>> THEN tags
    ELSE custom_tags_all(DictSet(tags, Head(custom_tags)[1], Head(custom_tags)[2]),
                         Tail(custom_tags))

\* map_resource, the extraction of the tags of a resource: the customTags
\* entries, the customTagValue_ columns under their own names, the 'Tag: '
\* columns under the tag name
map_resource_tags(a) ==
    LET method1 == custom_tags_all(<<>>, a.customTags)
        column == IF has_value(a.customTagValue_4)
                  THEN DictSet(method1, "customTagValue_4", a.customTagValue_4)
                  ELSE method1
    IN  IF has_value(a.tag_k1) THEN DictSet(column, "k1", a.tag_k1) ELSE column

\* _extract_tags, the customTags array: `if key and value and value != "no tag"`
RECURSIVE custom_tags_valued(_, _)
custom_tags_valued(tags, custom_tags) ==
    IF custom_tags = <<>> THEN tags
    ELSE custom_tags_valued(
            IF has_value(Head(custom_tags)[2])
            THEN DictSet(tags, Head(custom_tags)[1], Head(custom_tags)[2]) ELSE tags,
            Tail(custom_tags))

\* _extract_tags(asset, tag_column_map) with tag_column_map =
\* {"customTagValue_4": "k1"}
_extract_tags(a) ==
    LET array == custom_tags_valued(<<>>, a.customTags)
        column == IF has_value(a.customTagValue_4)
                  THEN DictSet(array, "k1", a.customTagValue_4) ELSE array
    IN  IF has_value(a.tag_k1) THEN DictSet(column, "k1", a.tag_k1) ELSE column

\* The two extractions of one asset
ExtractTags ==
    /\ ~tagged.done
    /\ tagged' = [tagged EXCEPT !.tag_context = map_resource_tags(tagged.asset),
                                !.tags = _extract_tags(tagged.asset),
                                !.done = TRUE]
    /\ UNCHANGED notMerge

\* =========================================================================
\* Part 15: the presigned upload, request by request: the loop of
\* SyncService._upload_vtags and UmbrellaClient.upload_virtual_tags.
\* =========================================================================

MaxUploadPayers == 2   \* payers of the groups

notPresigned == <<syncVars, mappingVars, assetVars, groupVars, runVars, pollVars,
                  trackerVars, reloadVars, historyVars, streamVars, validateVars,
                  pagerVars, mergeVars, csvgenVars, authVars>>

\* Statuses of the answer to generate-upload-url and to the PUT
UrlStatuses == {"200", "401", "500", "neterr"}
PutStatuses == {"200", "201", "204", "403", "500", "neterr"}

NoAnswer == [status |-> "none", url |-> FALSE, id |-> FALSE]

\* The loop before its first payer. compressed and mode are the arguments
\* upload_virtual_tags is called with (_upload_vtags: True and "upsert").
EnterUpload(n, compressed, mode) ==
    [pc |-> "head", payers |-> n, payer_idx |-> 1,
     args |-> [compressed |-> compressed, mode |-> mode],
     cancelled |-> FALSE, answer |-> NoAnswer,
     posts |-> <<>>, puts |-> <<>>,
     put_status |-> [p \in 1..MaxUploadPayers |-> "none"],
     uploads |-> <<>>]

payload_default(args) == [compressed |-> TRUE, mode |-> "upsert"]

\* `payload = {"compressed": compressed, "mode": mode}`
payload(args) == [compressed |-> args.compressed, mode |-> args.mode]

\* upload_headers: Content-Type, and Content-Encoding: gzip `if compressed`
upload_headers(args) == [content_type |-> "text/csv", gzip |-> args.compressed]

url_unchecked(answer) == TRUE

\* `response.status_code != 200` raises; `not upload_url or not upload_id` raises
url_granted(answer) == answer.status = "200" /\ answer.url /\ answer.id

put_unchecked(status) == TRUE

\* `upload_response.status_code not in (200, 201, 204)` raises
put_accepted(status) == status \in {"200", "201", "204"}

\* The `except Exception` and `finally` of a payer, or its `continue`
next_payer(u) == [u EXCEPT !.pc = "head", !.payer_idx = @ + 1]

\* Head of `for payer_idx, (payer_id, records) in enumerate(...)` up to the
\* POST of upload_virtual_tags: the cancelled check, the account key lookup,
\* the CSV and its gzip, _ensure_authenticated
PayerHead ==
    /\ presigned.pc = "head"
    /\ \E has_key \in BOOLEAN, files_ok \in BOOLEAN, auth_ok \in BOOLEAN :
         presigned' =
            IF presigned.payer_idx > presigned.payers \/ presigned.cancelled
            THEN [presigned EXCEPT !.pc = "done"]
            ELSE IF ~has_key \/ ~files_ok \/ ~auth_ok
            THEN next_payer(presigned)
            ELSE [presigned EXCEPT
                    !.pc = "post",
                    !.posts = Append(@, [payer |-> presigned.payer_idx,
                                         payload |-> payload(presigned.args)])]
    /\ UNCHANGED notPresigned

\* The answer to generate-upload-url, then the read of the file and the PUT
UrlAnswer ==
    /\ presigned.pc = "post"
    /\ \E status \in UrlStatuses, url \in BOOLEAN, id \in BOOLEAN, read_ok \in BOOLEAN :
         LET answer == [status |-> status, url |-> status = "200" /\ url,
                        id |-> status = "200" /\ id]
         IN  presigned' =
                IF url_granted(answer) /\ read_ok
                THEN [presigned EXCEPT
                        !.pc = "put", !.answer = answer,
                        !.puts = Append(@, [payer |-> presigned.payer_idx,
                                            answer |-> answer,
                                            headers |-> upload_headers(presigned.args)])]
                ELSE next_payer([presigned EXCEPT !.answer = answer])
    /\ UNCHANGED notPresigned

\* The answer to the PUT, the return of the upload id and uploads.append
PutAnswer ==
    /\ presigned.pc = "put"
    /\ \E status \in PutStatuses :
         LET u == [presigned EXCEPT !.put_status[presigned.payer_idx] = status]
         IN  presigned' =
                IF put_accepted(status)
                THEN next_payer([u EXCEPT !.uploads =
                                    Append(@, [upload_id |-> u.payer_idx,
                                               account_id |-> u.payer_idx])])
                ELSE next_payer(u)
    /\ UNCHANGED notPresigned

\* SyncService.cancel() while the loop runs
CancelUpload ==
    /\ presigned.pc # "done"
    /\ ~presigned.cancelled
    /\ presigned' = [presigned EXCEPT !.cancelled = TRUE]
    /\ UNCHANGED notPresigned

\* =========================================================================
\* Part 16: the end of TaggingEngine.fetch_and_map: the JSONL file is closed,
\* the CSV is generated by _process_and_generate_csv from
\* mapping_engine._sorted_dimensions, beside the reloads of Part 9.
\* =========================================================================

notCsvgen == <<syncVars, mappingVars, assetVars, groupVars, runVars, pollVars,
               trackerVars, reloadVars, historyVars, streamVars, validateVars,
               pagerVars, mergeVars, presignedVars, authVars>>

\* fetch_and_map inside `with open(output_file, "w") as jsonl_out`, called
\* with vtag_filter_dimensions = filter ({} for None)
EnterCsvgen(filter) ==
    [pc |-> "jsonl_open", filter |-> filter, cancel_requested |-> FALSE,
     jsonl_closed |-> FALSE, cancel_at_guard |-> FALSE,
     i |-> 0, sorted_dims |-> <<>>, headers |-> <<>>, complete |-> {}]

\* `headers = ["resourceid", "linkedaccid", "payeraccount"]`
FixedHeaders == <<"resourceid", "linkedaccid", "payeraccount">>

\* f"vtags:{dim_name}"
VtagsColumn(dim_name) ==
    IF dim_name = "D1" THEN "vtags:D1"
    ELSE IF dim_name = "D2" THEN "vtags:D2"
    ELSE IF dim_name = "D3" THEN "vtags:D3" ELSE "vtags:D4"

\* `if vtag_filter_dimensions: sorted_dims = [d for d in sorted_dims if d in
\* vtag_filter_dimensions]`, then the headers
csv_headers(sorted_dims, filter) ==
    LET kept == IF filter # {} THEN SelectSeq(sorted_dims, LAMBDA d : d \in filter)
                ELSE sorted_dims
    IN  FixedHeaders \o [k \in 1..Len(kept) |-> VtagsColumn(kept[k])]

\* The account loop has ended (exhausted, cancel or max_records) and the
\* `with` block closes the JSONL file
JsonlClose ==
    /\ csvgen.pc = "jsonl_open"
    /\ csvgen' = [csvgen EXCEPT !.pc = "closed", !.jsonl_closed = TRUE]
    /\ UNCHANGED notCsvgen

\* `if not self._cancel_requested and os.path.exists(output_file)`: the call
\* of _process_and_generate_csv. The complete lists at this moment are the one
\* in place and, with a reload under way, the one before it and the one it
\* is building.
CsvGuard ==
    /\ csvgen.pc = "closed"
    /\ csvgen' = IF csvgen.cancel_requested
                 THEN [csvgen EXCEPT !.pc = "skipped"]
                 ELSE [csvgen EXCEPT
                         !.pc = "header",
                         !.cancel_at_guard = csvgen.cancel_requested,
                         !.complete = IF loader.pc = "idle" THEN {sorted_dimensions}
                                      ELSE {loader.pre, loaded(loader.rows)}]
    /\ UNCHANGED notCsvgen

\* One iteration of `[d.vtag_name for d in mapping_engine._sorted_dimensions]`
HeaderStep ==
    /\ csvgen.pc = "header"
    /\ csvgen.i < Len(sorted_dimensions)
    /\ csvgen' = [csvgen EXCEPT
                    !.i = @ + 1,
                    !.sorted_dims = Append(@, sorted_dimensions[csvgen.i + 1].vtag_name)]
    /\ UNCHANGED notCsvgen

\* The iterator ends; the filter, the headers and writer.writerow(headers)
HeaderWrite ==
    /\ csvgen.pc = "header"
    /\ csvgen.i >= Len(sorted_dimensions)
    /\ csvgen' = [csvgen EXCEPT
                    !.pc = "written",
                    !.headers = csv_headers(csvgen.sorted_dims, csvgen.filter)]
    /\ UNCHANGED notCsvgen

\* TaggingEngine.cancel() from the request handler
CancelCsvgen ==
    /\ csvgen.pc \notin {"written", "skipped"}
    /\ ~csvgen.cancel_requested
    /\ csvgen' = [csvgen EXCEPT !.cancel_requested = TRUE]
    /\ UNCHANGED notCsvgen

\* =========================================================================
\* Part 17: UmbrellaClient._ensure_authenticated and authenticate. Time is
\* in minutes; token_expiry 0 is None.
\* =========================================================================

MaxNow == 120          \* the clock runs from 0 to MaxNow minutes

\* timedelta(hours=1), timedelta(minutes=5)
TokenLifetime == 60
RenewalBuffer == 5

\* Minutes that pass between two events
Advances == {5, 50}

notAuth == <<syncVars, mappingVars, assetVars, groupVars, runVars, pollVars,
             trackerVars, reloadVars, historyVars, streamVars, validateVars,
             pagerVars, mergeVars, presignedVars, csvgenVars>>

NoEnsure == [at |-> 0, pre_token |-> FALSE, pre_expiry |-> 0, creds |-> FALSE,
             broker_ok |-> FALSE, basic_ok |-> FALSE,
             contacted |-> <<>>, outcome |-> "none"]

\* The client after __init__
NewClient(creds) ==
    [jwt_token |-> FALSE, token_expiry |-> 0, auth_method |-> "none",
     now |-> 0, creds |-> creds, last |-> NoEnsure]

token_held(a) == a.jwt_token

\* `if self.jwt_token and self.token_expiry: if datetime.now() <
\* (self.token_expiry - buffer): return`
token_valid(a) ==
    a.jwt_token /\ a.token_expiry # 0 /\ a.now < a.token_expiry - RenewalBuffer

\* _authenticate_cognito / _authenticate_um2 on a 200 answer: the token (the
\* Authorization field, if the answer has one), the expiry, the method
authenticated(a, method, authorization) ==
    [a EXCEPT !.jwt_token = authorization,
              !.token_expiry = a.now + TokenLifetime,
              !.auth_method = method]

\* authenticate(): the endpoints it contacts, in order, its result ("raise"
\* without credentials) and the client it leaves
authenticate(a, broker_ok, basic_ok, authorization) ==
    IF ~a.creds THEN [contacted |-> <<>>, result |-> "raise", client |-> a]
    ELSE IF broker_ok
    THEN [contacted |-> <<"broker">>, result |-> "true",
          client |-> authenticated(a, "cognito", authorization)]
    ELSE IF basic_ok
    THEN [contacted |-> <<"broker", "basic">>, result |-> "true",
          client |-> authenticated(a, "um2", authorization)]
    ELSE [contacted |-> <<"broker", "basic">>, result |-> "false", client |-> a]

\* One call of _ensure_authenticated, with the answers of the two endpoints
EnsureAuthenticated ==
    /\ \E broker_ok \in BOOLEAN, basic_ok \in BOOLEAN, authorization \in BOOLEAN :
         LET entered == [at |-> auth.now, pre_token |-> auth.jwt_token,
                      pre_expiry |-> auth.token_expiry, creds |-> auth.creds,
                      broker_ok |-> broker_ok, basic_ok |-> basic_ok,
                      contacted |-> <<>>, outcome |-> "returned"]
             done == authenticate(auth, broker_ok, basic_ok, authorization)
         IN  auth' =
                IF token_valid(auth) THEN [auth EXCEPT !.last = entered]
                ELSE [done.client EXCEPT
                        !.last = [entered EXCEPT
                                    !.contacted = done.contacted,
                                    !.outcome = IF done.result = "true" THEN "returned"
                                                ELSE "raised"]]
    /\ UNCHANGED notAuth

\* `self.jwt_token = None` of a request answered 401
TokenCleared ==
    /\ auth.jwt_token
    /\ auth' = [auth EXCEPT !.jwt_token = FALSE]
    /\ UNCHANGED notAuth

\* The credentials are set or removed (environment, `credentials set`)
SetCredentials ==
    /\ auth' = [auth EXCEPT !.creds = ~@]
    /\ UNCHANGED notAuth

\* Time passes
Advance ==
    /\ \E d \in Advances :
         /\ auth.now + d <= MaxNow
         /\ auth' = [auth EXCEPT !.now = @ + d]
    /\ UNCHANGED notAuth

\* =========================================================================
\* The specifications
\* =========================================================================

InitCoordinator ==
    /\ engine = 0
    /\ cancelled = FALSE
    /\ starting = FALSE
    /\ upload_phase = ""
    /\ last_result = NoResult
    /\ upload_history = <<>>
    /\ tracker_state = "idle"
    /\ next_upload_id = 1
    /\ response = ""
    /\ task = [t \in Tasks |-> IdleTask]

InitResolver ==
    /\ statements = <<>>
    /\ indexes = EmptyIndexes
    /\ result = <<>>
    /\ rphase = "define"

InitChain ==
    /\ db_dimensions = {}
    /\ sorted_dimensions = <<>>
    /\ chain_pos = 0

InitAsset ==
    /\ asset = NoAsset
    /\ vtag_filter_dimensions = {}
    /\ tag_column_map = <<>>
    /\ mapped = <<>>
    /\ asset_outcome = "none"
    /\ jsonl = <<>>

InitGroup ==
    /\ jsonl_file = <<>>
    /\ groups = <<>>
    /\ csv = <<>>
    /\ gphase = "file"

InitRun ==
    /\ run_kind = "sync"
    /\ run_pc = "fetch"
    /\ jwt_token = TRUE
    /\ account_keys = 1
    /\ acct_outcome = [a \in 1..MaxRunAccounts |-> "none"]
    /\ run_matched = 0
    /\ payer_groups = 0
    /\ payer_idx = 1
    /\ payer_outcome = [p \in 1..MaxRunPayers |-> "none"]
    /\ paths = {}
    /\ files = {}
    /\ call = NoCall
    /\ run_status = "running"

InitPoll ==
    /\ import_status_cache = [u \in UploadIds |-> "none"]
    /\ upstream_phase = [u \in UploadIds |-> "processing"]
    /\ observed = [u \in UploadIds |-> "none"]
    /\ poll = [p \in Polls |-> IdlePoll]

InitTracker ==
    /\ tracker = InitialTracker
    /\ subscribers = {}
    /\ queues = [q \in Queues |-> <<>>]
    /\ now = 1
    /\ last_call = [op |-> "none", arg |-> None, calls |-> 0, subs |-> {},
                    pending |-> [q \in Queues |-> 0]]

InitReload ==
    /\ loader = IdleLoader
    /\ mapper = IdleMapper

InitAppended == appended = <<>>

\* fetch_and_map after self.reset(), for n accounts and max_records m
EnterFetch(n, m) ==
    [pc |-> "acct", acct |-> 1, accts |-> n, max_records |-> m,
     total_assets |-> 0, cancel_requested |-> FALSE,
     batch |-> 0, data |-> 0, token |-> FALSE, pages |-> 0,
     page_assets |-> 0, resume |-> "none", allowed |-> 0, late |-> FALSE,
     matched_assets |-> 0, unmatched_assets |-> 0, error_count |-> 0, failed |-> 0]

InitFetch == fetch = EnterFetch(1, 0)

InitValidate ==
    /\ content = [name |-> <<>>, is_list |-> TRUE, statements |-> <<>>]
    /\ errors = Pending

InitPager == pager = EnterStream(1, 0)

InitTagged == tagged = NoTagged

InitPresigned == presigned = EnterUpload(1, TRUE, "upsert")

InitCsvgen == csvgen = EnterCsvgen({})

InitAuth == auth = NewClient(TRUE)

InitMore == InitPager /\ InitTagged /\ InitPresigned /\ InitCsvgen /\ InitAuth

InitExtra == InitTracker /\ InitReload /\ InitAppended /\ InitFetch /\ InitValidate /\ InitMore

InitPipeline == InitAsset /\ InitGroup /\ InitRun /\ InitPoll /\ InitExtra

vars == <<syncVars, mappingVars, pipelineVars>>

\* The coordinator, with an engine that holds no dimension.
InitSync ==
    /\ InitCoordinator
    /\ InitResolver
    /\ InitChain
    /\ InitPipeline
    /\ tag_context = <<>>
    /\ dimension_context = <<>>

Spec == InitSync /\ [][NextSync]_vars

\* The coordinator with its background tasks scheduled: the thread pool runs
\* every task BackgroundTasks was handed, and every upstream call a task makes
\* returns or fails, so a task that can take a step takes one.  Requests are
\* under no obligation to arrive.
TasksScheduled == \A t \in Tasks : WF_vars(TaskStep(t))

\* The coordinator after one upload_file request has run to its end: the one
\* upload was taken upstream and recorded.  From here on every PUT fails
\* (UploadPut), which touches neither the starting flag nor the engine.
InitLive ==
    /\ engine = 0
    /\ cancelled = FALSE
    /\ starting = FALSE
    /\ upload_phase = ""
    /\ last_result = Result("completed", 0, 0, 0)
    /\ upload_history = <<1>>
    /\ tracker_state = "idle"
    /\ next_upload_id = 2
    /\ response = "started"
    /\ task = [t \in Tasks |-> IdleTask]
    /\ InitResolver
    /\ InitChain
    /\ InitPipeline
    /\ tag_context = <<>>
    /\ dimension_context = <<>>

SpecLive == InitLive /\ [][NextSync]_vars /\ TasksScheduled

\* One dimension evaluated against one resource.
InitMatch ==
    /\ InitCoordinator
    /\ InitResolver
    /\ InitChain
    /\ InitPipeline
    /\ tag_context \in Contexts(TagKeys, ContextValues)
    /\ dimension_context \in Contexts(DimKeys, ContextValues)

NextMatch ==
    \/ \E stmt \in Statements : AddStatement(stmt)
    \/ Compile
    \/ Match

SpecMatch == InitMatch /\ [][NextMatch]_vars

\* The engine of one installation: imports and resolutions.
NextChain ==
    \/ \E row \in Rows, replace \in BOOLEAN : ImportDimension(row, replace)
    \/ \E tags \in Contexts({"k1"}, {<<"A">>, <<"b">>}) : Resolve(tags)
    \/ ChainStep
    \/ ChainReturn

SpecChain == InitSync /\ [][NextChain]_vars

\* One asset of a fetch, with an imported set of dimensions loaded.
InitFetchAsset ==
    /\ InitCoordinator
    /\ InitResolver
    /\ db_dimensions \in AssetDbs
    /\ sorted_dimensions \in load_dimensions(db_dimensions)
    /\ chain_pos = 0
    /\ tag_context = <<>>
    /\ dimension_context = <<>>
    /\ asset = NoAsset
    /\ vtag_filter_dimensions \in {{}, {"D1"}}
    /\ InitExtra
    /\ tag_column_map = <<>>
    /\ mapped = <<>>
    /\ asset_outcome = "none"
    /\ jsonl = <<>>
    /\ InitGroup
    /\ InitRun
    /\ InitPoll

NextAsset ==
    \/ BuildColumnMap
    \/ \E a \in Assets : ProcessAsset(a)

SpecAsset == InitFetchAsset /\ [][NextAsset]_vars

\* The grouping of one JSONL file and the CSV of one of its payers.
InitGroupFile ==
    /\ InitCoordinator
    /\ InitResolver
    /\ InitChain
    /\ InitAsset
    /\ tag_context = <<>>
    /\ dimension_context = <<>>
    /\ InitExtra
    /\ jsonl_file \in JsonlFiles
    /\ groups = <<>>
    /\ csv = <<>>
    /\ gphase = "file"
    /\ InitRun
    /\ InitPoll

NextGroup ==
    \/ GroupByPayer
    \/ \E p \in 1..MaxLines : WriteUploadCsv(p)

SpecGroup == InitGroupFile /\ [][NextGroup]_vars

\* One run: a sync over its accounts, or the upload of an existing JSONL file.
\* The token the client holds is taken for valid or has expired.
InitOneRun ==
    /\ InitCoordinator
    /\ InitResolver
    /\ InitChain
    /\ InitAsset
    /\ InitGroup
    /\ tag_context = <<>>
    /\ dimension_context = <<>>
    /\ InitExtra
    /\ run_kind \in {"sync", "upload"}
    /\ run_pc = IF run_kind = "sync" THEN "fetch" ELSE "upload"
    /\ jwt_token \in BOOLEAN
    /\ account_keys \in 1..MaxRunAccounts
    /\ acct_outcome = [a \in 1..MaxRunAccounts |-> "none"]
    /\ run_matched = 0
    /\ payer_groups \in 0..MaxRunPayers
    /\ payer_idx = 1
    /\ payer_outcome = [p \in 1..MaxRunPayers |-> "none"]
    /\ paths = {}
    /\ files = {}
    /\ call = NoCall
    /\ run_status = "running"
    /\ InitPoll

NextRun ==
    \/ FetchAccountStream
    \/ RunAfterFetch
    \/ UploadGetAccounts
    \/ UploadNextPayer
    \/ UploadCsv
    \/ UploadGzip
    \/ UploadVirtualTags
    \/ UploadFinally

SpecRun == InitOneRun /\ [][NextRun]_vars

\* The polls of the import status of the uploads of the history.
NextPoll ==
    \/ \E p \in Polls : PollBegin(p)
    \/ \E p \in Polls : PollAccounts(p)
    \/ \E p \in Polls : PollFetch(p)
    \/ \E p \in Polls : PollEnd(p)
    \/ \E u \in UploadIds, phase \in {"completed", "failed"} : UpstreamFinishes(u, phase)

SpecPoll == InitSync /\ [][NextPoll]_vars

\* The operations of the tracker, in any order, and the SSE consumers.
NextTracker ==
    \/ \E q \in Queues : subscribe(q)
    \/ \E q \in Queues : unsubscribe(q)
    \/ \E q \in Queues : queue_get(q)
    \/ \E state \in AgentState, message \in {"", "m"}, progress \in {<<>>, <<50>>} :
          set_state(state, message, progress)
    \/ \E progress \in {50, 150}, message \in {None, "m"} : set_progress(progress, message)
    \/ \E progress \in {50} : set_sub_progress(progress)
    \/ \E total \in {2} : set_total_steps(total)
    \/ increment_step
    \/ \E value \in {1, 2} : set_stat("k", value)
    \/ tracker_reset
    \/ Tick

SpecTracker == InitSync /\ [][NextTracker]_vars

\* A running installation: dimensions are loaded at startup, the API creates,
\* updates and deletes dimensions while a run maps resources.
InitLoaded ==
    /\ InitCoordinator
    /\ InitResolver
    /\ InitPipeline
    /\ db_dimensions \in SUBSET Rows
    /\ \A r1, r2 \in db_dimensions : r1.vtag_name = r2.vtag_name => r1 = r2
    /\ sorted_dimensions \in load_dimensions(db_dimensions)
    /\ chain_pos = 0
    /\ tag_context = <<>>
    /\ dimension_context = <<>>

NextReload ==
    \/ \E row \in Rows : LoadClear(upsert(db_dimensions, row, TRUE))
    \/ \E row \in db_dimensions : LoadClear(delete_row(db_dimensions, row.vtag_name))
    \/ LoadAppend
    \/ LoadReturn
    \/ \E tags \in Contexts({"k1"}, {<<"A">>}) : MapBegin(tags)
    \/ MapStep
    \/ MapReturn

SpecReload == InitLoaded /\ [][NextReload]_vars

\* An installation whose history file holds the uploads of its earlier runs,
\* nearly or exactly MAX_UPLOAD_HISTORY of them, and the runs that follow.
InitHistory ==
    /\ engine = 0
    /\ cancelled = FALSE
    /\ starting = FALSE
    /\ upload_phase = ""
    /\ last_result = NoResult
    /\ \E n \in (MAX_UPLOAD_HISTORY - 2)..MAX_UPLOAD_HISTORY :
          /\ upload_history = [i \in 1..n |-> i]
          /\ next_upload_id = n + 1
    /\ tracker_state = "idle"
    /\ response = ""
    /\ task = [t \in Tasks |-> IdleTask]
    /\ InitResolver
    /\ InitChain
    /\ tag_context = <<>>
    /\ dimension_context = <<>>
    /\ InitAsset /\ InitGroup /\ InitRun /\ InitPoll
    /\ InitTracker /\ InitReload /\ InitFetch /\ InitValidate /\ InitMore
    /\ appended = upload_history

NextHistory ==
    \E succeeded \in SUBSET (next_upload_id..(next_upload_id + MaxBatch - 1)) :
        RunStoresResult(succeeded)

SpecHistory == InitHistory /\ [][NextHistory]_vars

\* One fetch_and_map and the cancel request.
NextStream ==
    \/ FetchHead
    \/ StreamSend
    \/ StreamReceive
    \/ StreamFill
    \/ PageBody
    \/ AssetStep
    \/ CancelFetch

\* One fetch_and_map, for some accounts and some max_records.
InitStream ==
    /\ InitCoordinator
    /\ InitResolver
    /\ InitChain
    /\ tag_context = <<>>
    /\ dimension_context = <<>>
    /\ InitAsset /\ InitGroup /\ InitRun /\ InitPoll
    /\ InitTracker /\ InitReload /\ InitAppended /\ InitValidate /\ InitMore
    /\ \E n \in 1..MaxFetchAccounts, m \in 0..MaxRecords : fetch = EnterFetch(n, m)

SpecStream == InitStream /\ [][NextStream]_vars

\* One validation request, for any dimension JSON.
InitValidation ==
    /\ InitCoordinator
    /\ InitResolver
    /\ InitChain
    /\ tag_context = <<>>
    /\ dimension_context = <<>>
    /\ InitAsset /\ InitGroup /\ InitRun /\ InitPoll
    /\ InitTracker /\ InitReload /\ InitAppended /\ InitFetch /\ InitMore
    /\ content \in Contents
    /\ errors = Pending

NextValidate == Validate

SpecValidate == InitValidation /\ [][NextValidate]_vars

\* One call of fetch_assets_stream, consumed to its end, for any batch_size
\* and max_pages.
InitPagedStream ==
    /\ InitCoordinator
    /\ InitResolver
    /\ InitChain
    /\ tag_context = <<>>
    /\ dimension_context = <<>>
    /\ InitAsset /\ InitGroup /\ InitRun /\ InitPoll
    /\ InitTracker /\ InitReload /\ InitAppended /\ InitFetch /\ InitValidate
    /\ InitTagged /\ InitPresigned /\ InitCsvgen /\ InitAuth
    /\ \E size \in 1..MaxBatchSize, pages \in 0..MaxMaxPages :
          pager = EnterStream(size, pages)

NextPager ==
    \/ StreamEnter
    \/ PageRequest
    \/ PageResponse
    \/ RetryResponse
    \/ StreamAppend
    \/ StreamPageEnd

SpecPager == InitPagedStream /\ [][NextPager]_vars

\* The extraction of the tags of any asset row.
InitTaggedAsset ==
    /\ InitCoordinator
    /\ InitResolver
    /\ InitChain
    /\ tag_context = <<>>
    /\ dimension_context = <<>>
    /\ InitAsset /\ InitGroup /\ InitRun /\ InitPoll
    /\ InitTracker /\ InitReload /\ InitAppended /\ InitFetch /\ InitValidate
    /\ InitPager /\ InitPresigned /\ InitCsvgen /\ InitAuth
    /\ \E a \in TaggedAssets : tagged = [NoTagged EXCEPT !.asset = a]

NextMerge == ExtractTags

SpecMerge == InitTaggedAsset /\ [][NextMerge]_vars

\* One upload loop over its payers, for either mode and compression flag.
InitUploadLoop ==
    /\ InitCoordinator
    /\ InitResolver
    /\ InitChain
    /\ tag_context = <<>>
    /\ dimension_context = <<>>
    /\ InitAsset /\ InitGroup /\ InitRun /\ InitPoll
    /\ InitTracker /\ InitReload /\ InitAppended /\ InitFetch /\ InitValidate
    /\ InitPager /\ InitTagged /\ InitCsvgen /\ InitAuth
    /\ \E n \in 1..MaxUploadPayers, compressed \in BOOLEAN,
          mode \in {"upsert", "replaceAll"} :
          presigned = EnterUpload(n, compressed, mode)

NextPresigned ==
    \/ PayerHead
    \/ UrlAnswer
    \/ PutAnswer
    \/ CancelUpload

SpecPresigned == InitUploadLoop /\ [][NextPresigned]_vars

\* A running installation at the end of a fetch_and_map, with or without an
\* output subset, while the API creates, updates and deletes dimensions.
InitCsvRun ==
    /\ InitCoordinator
    /\ InitResolver
    /\ InitAsset /\ InitGroup /\ InitRun /\ InitPoll
    /\ InitTracker /\ InitReload /\ InitAppended /\ InitFetch /\ InitValidate
    /\ InitPager /\ InitTagged /\ InitPresigned /\ InitAuth
    /\ db_dimensions \in SUBSET Rows
    /\ \A r1, r2 \in db_dimensions : r1.vtag_name = r2.vtag_name => r1 = r2
    /\ sorted_dimensions \in load_dimensions(db_dimensions)
    /\ chain_pos = 0
    /\ tag_context = <<>>
    /\ dimension_context = <<>>
    /\ \E filter \in {{}, {"D1"}} : csvgen = EnterCsvgen(filter)

NextCsvgen ==
    \/ \E row \in Rows : LoadClear(upsert(db_dimensions, row, TRUE))
    \/ \E row \in db_dimensions : LoadClear(delete_row(db_dimensions, row.vtag_name))
    \/ LoadAppend
    \/ LoadReturn
    \/ JsonlClose
    \/ CsvGuard
    \/ HeaderStep
    \/ HeaderWrite
    \/ CancelCsvgen

SpecCsvgen == InitCsvRun /\ [][NextCsvgen]_vars

\* A client over two hours: calls of _ensure_authenticated, 401 answers,
\* changes of the credentials.
InitClient ==
    /\ InitCoordinator
    /\ InitResolver
    /\ InitChain
    /\ tag_context = <<>>
    /\ dimension_context = <<>>
    /\ InitAsset /\ InitGroup /\ InitRun /\ InitPoll
    /\ InitTracker /\ InitReload /\ InitAppended /\ InitFetch /\ InitValidate
    /\ InitPager /\ InitTagged /\ InitPresigned /\ InitCsvgen
    /\ \E creds \in BOOLEAN : auth = NewClient(creds)

NextAuth ==
    \/ EnsureAuthenticated
    \/ TokenCleared
    \/ SetCredentials
    \/ Advance

SpecAuth == InitClient /\ [][NextAuth]_vars

\* ------------------------------------------- properties of the coordinator

\* Inside _run_sync, past its cancelled check (or inside _upload_vtags for it).
Running(t) ==
    /\ task[t].kind \in SyncKinds
    /\ task[t].pc \in {"rs_engine", "rs_accts", "rs_after"} \cup FetchPhase \cup UploadPhase

\* C1: single-flight - in every reachable state at most one sync run is between
\* its start and its finish.  (Refuted: two accepted syncs execute _run_sync at
\* the same time.)
C1_SingleFlight == Cardinality({t \in Tasks : Running(t)}) <= 1

StartsAccountFetch(t) == task[t].pc = "fm_acct" /\ task'[t].pc = "fm_stream"
StartsPayerUpload(t) == task[t].pc = "up_loop" /\ task'[t].pc = "up_put"

\* C2: a cancel() issued after a sync request was accepted is never lost - after
\* it the run starts no new account fetch and no new payer upload.  (Refuted:
\* fetch_and_map's reset() clears a cancel issued after the engine was created.)
C2_CancelNeverLost ==
    [][\A t \in Tasks :
         (task[t].kind \in SyncKinds /\ task[t].cancel_since_accept)
            => ~(StartsAccountFetch(t) \/ StartsPayerUpload(t))]_vars

Finishes(t) == Active(t) /\ task'[t].pc = "idle"

\* C3: when cancel() was requested during the fetch or the upload phase of a run,
\* the result the run stores as last_result has status "cancelled" and the
\* counters the run had reached.  (Refuted: a cancel seen by the upload loop ends
\* the loop, and the run is stored as completed.)
C3_CancelledResult ==
    [][\A t \in Tasks :
         (task[t].cancel_in_phase /\ Finishes(t))
            => /\ last_result'.status = "cancelled"
               /\ last_result'.total_assets = task[t].total
               /\ last_result'.matched_assets = task[t].matched
               /\ last_result'.unmatched_assets = task[t].unmatched]_vars

\* C4: if a check of the fetch loops observed the cancellation, then in that run
\* the pipeline CSV is never generated and no presigned upload is attempted.
C4_NoCsvNoUploadAfterCancel ==
    \A t \in Tasks :
        task[t].cancel_observed => ~task[t].csv_generated /\ ~task[t].upload_attempted

\* A run whose fetch loop observed the cancel has passed the CSV step.
C4_Witness ==
    \E t \in Tasks : task[t].cancel_observed /\ task[t].pc = "rs_after"

\* C5: a start request that arrives while a run is executing is answered with a
\* conflict and changes nothing of the coordinator, nor of the run in flight.
\* (Refuted: between `self._starting = False` and `self._engine = engine` the
\* guard sees an idle coordinator.)
C5_ConflictChangesNothing ==
    [][((\E t \in Tasks : Running(t)) /\ (\E kind \in SyncKinds : StartSync(kind)))
          => (response' = "conflict" /\ UNCHANGED coordVars /\ UNCHANGED task)]_vars

IdleCoordinator == engine = 0 /\ ~starting

\* C6: cancel() on an idle coordinator leaves last_result, the upload history, the
\* starting flag and the engine reference unchanged, and a sync sees a cancel
\* flag (the coordinator's or its engine's) only if cancel() was called after
\* the sync was accepted.
C6_IdleCancelNoOp ==
    [][/\ (IdleCoordinator /\ CancelSync)
            => UNCHANGED <<last_result, upload_history, starting, engine>>
       /\ \A t \in Tasks :
            (task'[t].kind \in SyncKinds
                /\ (cancelled' \/ task'[t].cancel_requested))
              => task'[t].cancel_since_accept]_vars

\* cancel() has just acted on an idle coordinator: the flag is set, nothing runs,
\* and no result was stored.
C6_Witness ==
    /\ IdleCoordinator
    /\ cancelled
    /\ response = "ok"
    /\ \A t \in Tasks : ~Active(t)
    /\ last_result = NoResult


\* ------------------------------------------------ properties of the resolver

\* The rules as they are written: an atom matches a context when the context
\* holds its key with a value that equals (==) or contains (CONTAINS) the
\* literal, case-insensitively.
AtomMatches(atom) ==
    LET ctx == IF atom.type = "TAG" THEN tag_context ELSE dimension_context
    IN  \E i \in 1..Len(ctx) :
            /\ ctx[i][1] = atom.key
            /\ IF atom.op = "==" THEN Lower(ctx[i][2]) = Lower(atom.value)
               ELSE Contains(Lower(atom.value), Lower(ctx[i][2]))

\* 1 TAG exact, 2 DIM exact, 3 TAG contains, 4 DIM contains
RuleClass(atom) ==
    IF atom.op = "==" THEN (IF atom.type = "TAG" THEN 1 ELSE 2)
    ELSE (IF atom.type = "TAG" THEN 3 ELSE 4)

\* The statements with a matching atom of class c
MatchingStatements(c) ==
    {n \in 1..Len(statements) :
        \E a \in 1..Len(statements[n].matchExpression) :
            /\ RuleClass(statements[n].matchExpression[a]) = c
            /\ AtomMatches(statements[n].matchExpression[a])}

ValueOf(n) == parse_value_expression(statements[n].valueExpression)

\* validate_dimension_json rejects an empty value literal; `dimensions import`
\* stores a dimension without validating it.
Validated == \A n \in 1..Len(statements) : ValueOf(n) # <<>>

\* C7: within one dimension the value returned is that of a rule of the highest
\* matching class (TAG exact > DIM exact > TAG contains > DIM contains), whatever
\* the order of the statements.  Stated for validated dimensions, the narrower
\* case; without validation an exact rule with an empty value is passed over too.
C7_SourcePrecedence ==
    (rphase = "matched" /\ Validated) =>
        \A c \in 1..4 :
            (/\ MatchingStatements(c) # {}
             /\ \A higher \in 1..(c - 1) : MatchingStatements(higher) = {})
            => result \in {ValueOf(n) : n \in MatchingStatements(c)}

\* C8: when two statements of the dimension both match the tag context exactly
\* (on the same key or on different keys), the dimension resolves to the value
\* of the earlier one.  Stated for validated dimensions, as C7.
C8_EarlierExactWins ==
    (rphase = "matched" /\ Validated /\ Cardinality(MatchingStatements(1)) >= 2)
        => result = ValueOf(Least(MatchingStatements(1)))

\* C9: a compiled dimension returns the value of one of its statements or its
\* default value, and its default value when it has no statement.
C9_TotalAndClosed ==
    rphase = "matched" =>
        /\ result \in {ValueOf(n) : n \in 1..Len(statements)} \cup {DefaultValue}
        /\ statements = <<>> => result = DefaultValue

\* A second statement's value is returned although the first one does not match.
C9_Witness ==
    /\ rphase = "matched"
    /\ Len(statements) = 2
    /\ tag_context # <<>>
    /\ MatchingStatements(1) = {2}
    /\ result = ValueOf(2)
    /\ result # ValueOf(1)


\* --------------------------------------------------- properties of the chain

\* The names whose value the dimension context holds
ContextNames == {dimension_context[i][1] : i \in 1..Len(dimension_context)}

\* What the dimension at position i resolves to, given the values before it
ResolvedAt(i) ==
    match(sorted_dimensions[i].indexes, DefaultValue, tag_context,
          SubSeq(dimension_context, 1, i - 1))

\* C10: the dimensions are resolved in ascending index_number (never one with a
\* higher index_number before one with a lower), and when the dimension at
\* position k is resolved the dimension context holds exactly the resolved values
\* of the dimensions at the positions before k, none of a later position.
C10_AscendingChain ==
    chain_pos \in 1..(Len(sorted_dimensions) + 1) =>
        /\ \A i \in 1..Len(sorted_dimensions), j \in 1..Len(sorted_dimensions) :
               i < j => sorted_dimensions[i].index <= sorted_dimensions[j].index
        /\ Len(dimension_context) = chain_pos - 1
        /\ \A i \in 1..(chain_pos - 1) :
               dimension_context[i] = <<sorted_dimensions[i].vtag_name, ResolvedAt(i)>>

\* The second dimension's DIMENSION['D1'] rule has seen the value of the first.
C10_Witness ==
    /\ chain_pos = 3
    /\ Len(sorted_dimensions) = 2
    /\ sorted_dimensions[1].index < sorted_dimensions[2].index
    /\ dimension_context = <<<<"D1", <<"A">>>>, <<"D2", <<"X">>>>>>


\* ------------------------------------------------ properties of the pipeline

Processed == asset_outcome \in {"raised", "written", "unmatched"}

\* Some dimension of the output set leaves its default when each positional
\* column is read under the tag name the column index map assigns to it.
Matched ==
    LET named == resolve_chain(sorted_dimensions, extract_tags(asset, tag_column_map), <<>>)
    IN  any_match(filter_dimensions(named, vtag_filter_dimensions), vtag_filter_dimensions)

\* C11: a tag value delivered in column customTagValue_N is visible to the
\* resolver under the tag key the column index map assigns to N: a dimension
\* with a rule TAG[k] == v resolves by that rule for a processed asset whose
\* column for k carries v.
C11_ColumnTagVisible ==
    Processed =>
        \A n \in 1..Len(tag_column_map), i \in 1..Len(sorted_dimensions) :
            (\E e \in 1..Len(sorted_dimensions[i].indexes.tag_exact) :
                LET rule == sorted_dimensions[i].indexes.tag_exact[e]
                IN  /\ rule.key = tag_column_map[n]
                    /\ rule.value = Lower(asset.cols[n + FirstTagColumn - 1]))
            => /\ asset_outcome # "raised"
               /\ DictGet(mapped, sorted_dimensions[i].vtag_name, DefaultValue)
                      # DefaultValue

\* The records of the JSONL file that belong to the asset
AssetRecords == {i \in 1..Len(jsonl) : jsonl[i].resourceid = asset.resourceid}

\* C12: a JSONL record is written for a processed resource if and only if at
\* least one dimension of the (optionally restricted) output set resolved to a
\* value different from its default.
C12_RecordIffMatched ==
    Processed => (AssetRecords # {} <=> Matched)

GroupRows == {<<p, i>> \in (1..MaxLines) \X (1..MaxLines) :
                 p <= Len(groups) /\ i <= Len(groups[p][2])}

\* C14: no per-payer upload group contains a row whose resource id is empty,
\* equals "Not Available", is longer than 255 characters, or equals the
\* resource id of another row of the same payer.
C14_ValidUniqueResourceIds ==
    gphase # "file" =>
        /\ \A r \in GroupRows :
               LET resource_id == groups[r[1]][2][r[2]].resource_id
               IN  /\ resource_id # <<>>
                   /\ resource_id # NotAvailable
                   /\ Len(resource_id) <= MaxResourceIdLen
        /\ \A r, q \in GroupRows :
               (r[1] = q[1] /\ r[2] # q[2])
               => groups[r[1]][2][r[2]].resource_id # groups[q[1]][2][q[2]].resource_id

\* A file with the same resource twice for one payer, and ids of each refused
\* kind, has been grouped into one row.
C14_Witness ==
    /\ gphase = "grouped"
    /\ Len(jsonl_file) = 2
    /\ jsonl_file[1] = jsonl_file[2]
    /\ jsonl_file[1].json
    /\ Len(jsonl_file[1].resourceid) = MaxResourceIdLen
    /\ Len(groups) = 1
    /\ Len(groups[1][2]) = 1

\* text.split(sep)
RECURSIVE Split(_, _)
Split(text, sep) ==
    IF \E i \in 1..Len(text) : text[i] = sep
    THEN LET i == Least({j \in 1..Len(text) : text[j] = sep})
         IN  <<SubSeq(text, 1, i - 1)>> \o Split(SubSeq(text, i + 1, Len(text)), sep)
    ELSE <<text>>

\* The Virtual Tags field as the reader of the CSV receives it: without the
\* quotes that wrap a field with a comma
Unquoted(field) ==
    IF Len(field) >= 2 /\ field[1] = "\"" /\ field[Len(field)] = "\""
    THEN SubSeq(field, 2, Len(field) - 1) ELSE field

\* C15: every row of an upload CSV has a non-empty virtual-tag string made of
\* name:value pairs joined by ';', and no pair in it has the value Unallocated.
C15_NoUnallocatedPair ==
    gphase = "written" =>
        \A i \in 1..Len(csv) :
            LET pairs == Split(Unquoted(csv[i].vtags), ";")
            IN  /\ csv[i].vtags # <<>>
                /\ \A n \in 1..Len(pairs) :
                       LET parts == Split(pairs[n], ":")
                       IN  /\ Len(parts) >= 2
                           /\ parts[1] # <<>>
                           /\ Join(Tail(parts), <<":">>) # Unallocated

\* The payer a record is grouped under
PayerOf(record) == Or(record.payeraccount, record.linkedaccid)

\* A record with a valid resource id, a payer and a non-empty virtual-tag string
Uploadable(record) ==
    /\ record.json
    /\ record.resourceid # <<>>
    /\ record.resourceid # NotAvailable
    /\ Len(record.resourceid) <= MaxResourceIdLen
    /\ PayerOf(record) # <<>>
    /\ vtag_pairs(record.dimensions) # <<>>

\* The rows of resource_id in the upload group of payer_account
RowsOf(payer_account, resource_id) ==
    {r \in GroupRows : /\ groups[r[1]][1] = payer_account
                       /\ groups[r[1]][2][r[2]].resource_id = resource_id}

\* C32: if the JSONL holds, for a payer, a record of resource R with a valid
\* resource id and a non-empty virtual-tag string, the payer's upload group has
\* exactly one row for R, whatever other records of R precede it in the file.
C32_TaggedRecordUploaded ==
    gphase # "file" =>
        \A i \in 1..Len(jsonl_file) :
            Uploadable(jsonl_file[i])
            => Cardinality(RowsOf(PayerOf(jsonl_file[i]), jsonl_file[i].resourceid)) = 1

\* ------------------------------------------------- properties of one run

C17_FatalErrorsAbort ==
    (/\ run_pc = "done"
     /\ \/ \E a \in 1..account_keys : acct_outcome[a] \in {"auth_failed", "http_401"}
        \/ \E p \in 1..payer_groups : payer_outcome[p] \in {"auth_failed", "malformed"})
    => run_status = "error"

\* C18: a non-401 HTTP failure or a network error while streaming one account or
\* uploading one payer skips only that account or payer: every later account
\* is streamed, every later payer is processed, and the run does not end with
\* status "error" because of it (it does so only when the account lookup of the
\* upload raised, before any payer).
C18_TransientErrorsSkip ==
    run_pc = "done" =>
        /\ \A a \in 1..account_keys :
               acct_outcome[a] \in {"http_error", "network_error"}
               => \A b \in (a + 1)..account_keys : acct_outcome[b] # "none"
        /\ \A p \in 1..payer_groups :
               payer_outcome[p] \in {"http_error", "network_error", "put_error"}
               => \A q \in (p + 1)..payer_groups : payer_outcome[q] # "none"
        /\ run_status = "error"
               => /\ call.kind = "accounts"
                  /\ \A p \in 1..MaxRunPayers : payer_outcome[p] = "none"

\* A run whose first payer failed on a network error and whose second payer
\* was uploaded has completed.
C18_Witness ==
    /\ run_pc = "done"
    /\ run_status = "completed"
    /\ payer_groups = 2
    /\ payer_outcome[1] = "network_error"
    /\ payer_outcome[2] = "uploaded"

\* C19: for every upstream data call (account listing, asset page fetch,
\* presigned-URL request) a 401 makes the client re-authenticate once and send
\* the request once more; a 401 on the retry is not retried, and no other
\* status is retried.
C19_RetryOnceOn401 ==
    call.requests > 0 =>
        /\ call.requests <= 2
        /\ call.first = "401" => /\ call.reauths = 1
                                 /\ call.reauth_ok => call.requests = 2
        /\ call.first # "401" => /\ call.reauths = 0
                                 /\ call.requests = 1

\* ---------------------------------- properties of the import-status monitor

\* The cache holds terminal records only, and a poll gives the record the cache
\* held when it began, without a request, for every upload that was cached then
CachedStaysCached(p) ==
    /\ \A u \in UploadIds : import_status_cache[u] \in {"none", "completed", "failed"}
    /\ poll[p].pc # "idle" =>
           \A u \in UploadIds :
               poll[p].begin_cache[u] # "none"
               => /\ u \notin poll[p].requested
                  /\ poll[p].results[u] = poll[p].begin_cache[u]
                  /\ import_status_cache[u] = poll[p].begin_cache[u]

\* The uploads that were not cached when the poll began
Uncached(p) == {u \in UploadIds : poll[p].begin_cache[u] = "none"}

Capacity == MaxCalls - 2

\* C21: every subscription queue has a fixed capacity, a publish that finds a
\* queue full removes its subscriber instead of blocking, and so no
\* subscriber's pending-message count grows beyond the capacity.
C21_PendingWithinCapacity ==
    \A q \in subscribers : Len(queues[q]) <= Capacity

\* The snapshot a subscriber would be sent now.
Snapshot == to_dict(tracker_state, tracker, now)

\* C22: each of set_state, set_progress, set_stat and reset updates the
\* snapshot and puts the updated snapshot to every queue subscribed at the call.
C22_EveryUpdatePushes ==
    last_call.op \in {"set_state", "set_progress", "set_stat", "reset"}
        => \A q \in last_call.subs :
              /\ Len(queues[q]) = last_call.pending[q] + 1
              /\ queues[q][Len(queues[q])] = Snapshot

\* C23: after set_state(starting), whatever came before, progress, step count,
\* sub-progress, stats and error have their initial values, the start
\* timestamp is set and the completion timestamp is cleared; after set_state
\* to complete, error or cancelled the completion timestamp is set.
C23_StartingResetsCounters ==
    last_call.op = "set_state" =>
        /\ last_call.arg = "starting" =>
              /\ tracker.progress = InitialTracker.progress
              /\ tracker.step_count = InitialTracker.step_count
              /\ tracker.sub_progress = InitialTracker.sub_progress
              /\ tracker.stats = InitialTracker.stats
              /\ tracker.error = InitialTracker.error
              /\ tracker.started_at = now
              /\ tracker.completed_at = 0
        /\ last_call.arg \in Terminal => tracker.completed_at = now


\* --------------------------------------------- properties of the reload

\* C24: a resource mapping that runs beside a dimension reload evaluates
\* either the complete list of before the reload or the complete list of
\* after it, never an empty or partially loaded one.
C24_CompleteListEvaluated ==
    mapper.pc = "returned" => mapper.seen \in mapper.complete


\* ------------------------------------------- properties of the end of a run

C27_MaxRecordsCeiling ==
    fetch.max_records > 0 => fetch.total_assets <= fetch.max_records

\* The ceiling was reached with accounts left to fetch.
C27_Witness ==
    /\ fetch.pc = "done"
    /\ fetch.max_records > 0
    /\ fetch.total_assets = fetch.max_records
    /\ fetch.acct <= fetch.accts
    /\ ~fetch.cancel_requested

\* C30: once cancellation is requested during the fetch of an account, at most
\* the page request already in flight completes: no further page request is
\* sent for the run, whatever the page sizes relative to batch_size.
C30_NoRequestAfterCancel ==
    ~fetch.late


\* ------------------------------------------- properties of the validation

\* A statement validate comes to, one of whose atoms fails to parse.
HasBadAtom(c) ==
    /\ c.is_list
    /\ \E n \in 1..Len(c.statements) :
          \E a \in 1..Len(c.statements[n].matchExpression) :
              ~pattern_matches(c.statements[n].matchExpression[a])

\* A name, a list of statements, and only well-formed statements.
WellFormedDimension(c) ==
    /\ c.name # <<>>
    /\ c.is_list
    /\ \A n \in 1..Len(c.statements) :
          /\ c.statements[n].matchExpression # <<>>
          /\ \A a \in 1..Len(c.statements[n].matchExpression) :
                pattern_matches(c.statements[n].matchExpression[a])
          /\ Cardinality(Quotes(c.statements[n].valueExpression)) = 2
          /\ Len(c.statements[n].valueExpression) > 2

\* C28: validate returns a non-empty error list for every statement whose
\* match expression holds an atom that fails to parse, also when other atoms
\* of the same '||' expression parse, and an empty list for a dimension with
\* a name, a list of statements and only well-formed statements.
C28_BadAtomsReported ==
    errors # Pending =>
        /\ HasBadAtom(content) => errors # <<>>
        /\ WellFormedDimension(content) => errors = <<>>


\* ------------------------------------------- properties of CONTAINS rules

\* The contains list of the atom's source holds the atom of statement n.
Compiled(atom, n) ==
    LET list == IF atom.type = "TAG" THEN indexes.tag_contains ELSE indexes.dim_contains
    IN  \E i \in 1..Len(list) :
            /\ list[i].key = atom.key
            /\ list[i].value = Lower(atom.value)
            /\ list[i].result = ValueOf(n)

\* C29: every CONTAINS atom of every statement is compiled into the contains
\* list of its source, and when no exact rule matches, the dimension resolves
\* to the value of a CONTAINS atom whose key is in the context and whose
\* literal is a substring of the lower-cased value; in particular a TAG
\* CONTAINS atom still matches when an earlier '==' atom has its key and literal.
C29_ContainsCompiled ==
    /\ rphase \in {"compiled", "matched"} =>
          \A n \in 1..Len(statements) :
              \A a \in 1..Len(statements[n].matchExpression) :
                  statements[n].matchExpression[a].op = "CONTAINS"
                      => Compiled(statements[n].matchExpression[a], n)
    /\ (/\ rphase = "matched"
        /\ MatchingStatements(1) = {}
        /\ MatchingStatements(2) = {}
        /\ MatchingStatements(3) # {})
          => result \in {ValueOf(n) : n \in MatchingStatements(3)}

\* -------------------------------------------- properties of the page stream

\* The response that ends the stream: no nextToken, or max_pages reached
LastPage(p, i) ==
    p.responses[i] = "" \/ (p.max_pages > 0 /\ i >= p.max_pages)

\* C31: for one account stream the first request carries no token and each
\* later request carries the nextToken of the preceding page; the stream ends
\* at the first response without nextToken or after max_pages pages; the
\* yielded batches, concatenated, are the fetched pages' rows in order, and
\* every batch but the last has exactly batch_size rows.
C31_PagedStream ==
    /\ \A i \in 1..Len(pager.requests) :
          pager.requests[i].token =
             IF pager.requests[i].page = 1 THEN ""
             ELSE pager.responses[pager.requests[i].page - 1]
    /\ \A i \in 1..Len(pager.responses) :
          LastPage(pager, i) =>
             /\ i = Len(pager.responses)
             /\ pager.pc \in {"fill", "ended"}
    /\ pager.pc = "ended" =>
          /\ pager.responses # <<>>
          /\ LastPage(pager, Len(pager.responses))
          /\ Concat(pager.yielded) = Concat(pager.fetched)
    /\ pager.pc \notin {"raised"} =>
          Concat(pager.yielded) \o pager.batch \o pager.data = Concat(pager.fetched)
    /\ \A i \in 1..Len(pager.yielded) :
          /\ Len(pager.yielded[i]) \in 1..pager.batch_size
          /\ (i < Len(pager.yielded) \/ pager.pc # "ended")
                => Len(pager.yielded[i]) = pager.batch_size

\* a stream of three pages, the second fetched again after a 401, that ended
\* with a short last batch after a batch that spans two pages
C31_Witness ==
    /\ pager.pc = "ended"
    /\ pager.batch_size = 2
    /\ Len(pager.responses) = 3
    /\ Len(pager.requests) = 4
    /\ Len(pager.fetched[1]) = 1
    /\ Len(pager.yielded) >= 2
    /\ Len(pager.yielded[Len(pager.yielded)]) = 1

\* ------------------------------------------------ properties of the tags

\* A dictionary as the set of its items
Items(d) == {d[i] : i \in 1..Len(d)}

\* One channel merged into the tags: a value that is empty or "no tag" is
\* absent, a key that is already present keeps its value
RECURSIVE MergeChannel(_, _)
MergeChannel(tags, pairs) ==
    IF pairs = <<>> THEN tags
    ELSE MergeChannel(
            IF has_value(Head(pairs)[2]) /\ \A i \in 1..Len(tags) : tags[i][1] # Head(pairs)[1]
            THEN Append(tags, Head(pairs)) ELSE tags,
            Tail(pairs))

\* customTags, then customTagValue_N, then the 'Tag: ' columns
MergedTags(a) ==
    MergeChannel(MergeChannel(MergeChannel(<<>>, a.customTags),
                              <<<<"k1", a.customTagValue_4>>>>),
                 <<<<"k1", a.tag_k1>>>>)

\* C33: the tag context used for the resolution and the tags written to the
\* JSONL record are the merge of customTags, customTagValue_N and 'Tag: '
\* columns in this order, "no tag" counting as absent in every channel and a
\* key supplied by an earlier channel not being overwritten by a later one.
C33_ThreeChannelMerge ==
    tagged.done =>
        /\ Items(tagged.tag_context) = Items(MergedTags(tagged.asset))
        /\ Items(tagged.tags) = Items(MergedTags(tagged.asset))

\* ------------------------------------------- properties of the counters

\* C34: when an account's stream fails during the fetch, the loop goes on with
\* the next account and the statistics returned carry a non-zero error
\* counter, so that a run with a failed account differs from one without.
C34_FailedAccountCounted ==
    (fetch.pc = "done" /\ fetch.failed > 0) => fetch.error_count > 0

\* C38: between any two resources and when fetch_and_map returns,
\* total_assets = matched_assets + unmatched_assets, also when the mapping of
\* a resource or the stream of an account raises and the account is skipped.
C38_CountersAddUp ==
    fetch.total_assets = fetch.matched_assets + fetch.unmatched_assets

\* ------------------------------------- properties of the presigned upload

\* The entries of the uploads list for a payer
EntriesOf(p) ==
    {i \in 1..Len(presigned.uploads) : presigned.uploads[i].account_id = p}

\* C35: the file PUT of a payer is issued only after generate-upload-url
\* answered 200 with an upload URL and an upload id, mode and compressed being
\* passed through unchanged; the uploads list gets an entry for a payer if and
\* only if its PUT answered 200, 201 or 204, so it holds at most one entry per
\* payer and none for a skipped or failed payer.
C35_PresignedUpload ==
    /\ \A i \in 1..Len(presigned.puts) :
          /\ presigned.puts[i].answer = [status |-> "200", url |-> TRUE, id |-> TRUE]
          /\ \E j \in 1..Len(presigned.posts) :
                presigned.posts[j].payer = presigned.puts[i].payer
          /\ presigned.puts[i].headers.gzip = presigned.args.compressed
    /\ \A j \in 1..Len(presigned.posts) :
          /\ presigned.posts[j].payload.mode = presigned.args.mode
          /\ presigned.posts[j].payload.compressed = presigned.args.compressed
    /\ \A p \in 1..MaxUploadPayers :
          /\ Cardinality(EntriesOf(p)) <= 1
          /\ (p < presigned.payer_idx \/ presigned.pc = "done") =>
                (EntriesOf(p) # {} <=> presigned.put_status[p] \in {"200", "201", "204"})
          /\ (p >= presigned.payer_idx /\ presigned.pc # "done") => EntriesOf(p) = {}

\* the loop of _upload_vtags has ended after two payers: the first one's PUT
\* was refused, the second one's PUT answered 204 and is the one entry
C35_Witness ==
    /\ presigned.pc = "done"
    /\ presigned.args = [compressed |-> TRUE, mode |-> "upsert"]
    /\ Len(presigned.puts) = 2
    /\ presigned.put_status = <<"403", "204">>
    /\ Len(presigned.uploads) = 1
    /\ presigned.uploads[1].account_id = 2

\* ------------------------------------------- properties of the pipeline CSV

\* The names of a list of dimensions, in its order
NamesOf(dims) == [k \in 1..Len(dims) |-> dims[k].vtag_name]

\* A list of dimensions in ascending index order
Ascending(dims) ==
    \A k \in 1..Len(dims), l \in 1..Len(dims) : k < l => dims[k].index <= dims[l].index

\* The complete lists of dimensions of a CSV generation: those in place when
\* it began, and the one a reload that began later has built or is building
CompleteLists ==
    csvgen.complete \cup (IF loader.pc = "idle" THEN {sorted_dimensions}
                          ELSE {loaded(loader.rows)})

\* C36: the pipeline CSV is generated only after the JSONL file has been
\* written and closed and only if cancellation has not been requested; its
\* columns are resourceid, linkedaccid, payeraccount followed by vtags:<d> for
\* the dimensions in ascending index order, restricted to the optional subset.
C36_CsvAfterJsonl ==
    /\ csvgen.pc \in {"header", "written"} =>
          csvgen.jsonl_closed /\ ~csvgen.cancel_at_guard
    /\ csvgen.pc = "written" =>
          \E dims \in CompleteLists :
              /\ Ascending(dims)
              /\ csvgen.headers = csv_headers(NamesOf(dims), csvgen.filter)

\* ------------------------------------------- properties of the client token

\* The last call found no token, or the time within five minutes of the
\* token's expiry or past it
Stale(ensured) == ~ensured.pre_token \/ ensured.at >= ensured.pre_expiry - RenewalBuffer

\* What the claim says of a call that authenticates: the token broker first,
\* the basic-auth exchange only after the broker failed, an exception if both
\* fail, and on success an expiry one hour after the authentication
BrokerThenBasic(ensured) ==
    /\ ensured.contacted = IF ensured.broker_ok THEN <<"broker">> ELSE <<"broker", "basic">>
    /\ ensured.outcome = "raised" <=> (~ensured.broker_ok /\ ~ensured.basic_ok)
    /\ ensured.outcome = "returned" => auth.token_expiry = ensured.at + TokenLifetime

\* C37 as stated: _ensure_authenticated contacts upstream if and only if no
\* token is held or the time is within 5 minutes of the expiry or past it,
\* and then tries the broker first, the basic-auth exchange only if the broker
\* failed, raises if both fail and on success stores an expiry one hour after
\* the authentication time.
C37_ContactsIffStale ==
    auth.last.outcome # "none" =>
        /\ auth.last.contacted # <<>> <=> Stale(auth.last)
        /\ Stale(auth.last) => BrokerThenBasic(auth.last)

\* C37, amended: with credentials available the call contacts upstream if and
\* only if the token is missing or within 5 minutes of its expiry, in the
\* stated order and with the stated expiry; without credentials such a call
\* raises without contacting upstream; a call with a fresh token returns and
\* leaves token and expiry as they are.
C37_ContactsIffStaleWithCredentials ==
    auth.last.outcome # "none" =>
        /\ auth.last.contacted # <<>> <=> (Stale(auth.last) /\ auth.last.creds)
        /\ (Stale(auth.last) /\ auth.last.creds) => BrokerThenBasic(auth.last)
        /\ (Stale(auth.last) /\ ~auth.last.creds) =>
              /\ auth.last.outcome = "raised"
              /\ auth.token_expiry = auth.last.pre_expiry
        /\ ~Stale(auth.last) =>
              /\ auth.last.outcome = "returned"
              /\ auth.token_expiry = auth.last.pre_expiry

\* a token obtained at minute 0 through the basic-auth exchange was renewed
\* through the broker by the call at minute 55, the first minute of the margin
C37_Witness ==
    /\ auth.last.at = 55
    /\ auth.last.pre_token
    /\ auth.last.pre_expiry = 60
    /\ auth.last.contacted = <<"broker">>
    /\ auth.last.outcome = "returned"
    /\ auth.token_expiry = 115
    /\ auth.auth_method = "cognito"

\* A sync request was accepted and its closure has not returned yet.
SyncInFlight == \E t \in Tasks : Active(t) /\ task[t].kind \in SyncKinds

\* The guard of the start handlers lets a sync request in.
Released == ~starting /\ engine = 0

\* C39: with every background task scheduled and every upstream call
\* returning or failing, a state in which an accepted sync request (week,
\* month or range) is still in flight, wherever its closure stands, is
\* followed by a state in which the starting flag is false and no engine is
\* referenced.
C39_SyncReleases == SyncInFlight ~> Released

\* a week sync that created its engine and mapped assets has returned, and the
\* guard lets the next request in
C39_Witness ==
    /\ ~SyncInFlight
    /\ Released
    /\ last_result.status = "completed"
    /\ last_result.total_assets > 0

====
